---- MODULE Spec2Model ----
(***************************************************************************)
(* State-machine model of the graphing back end:                           *)
(*   - EthereumBlockFetcher (graphing/pythonMinedBlockGetter.py): the      *)
(*     checkpointed log scanner and its challenge-change fold;             *)
(*   - findPricesAndTimestamps_BWORK.py: the retrying storage read, the    *)
(*     snapshot store (clean, backfill insert, live insert, eviction,      *)
(*     update_current_price).                                              *)
(* Each subsystem has its own specification over the shared variables; the *)
(* variables of the other subsystems stay at their initial value.          *)
(***************************************************************************)
EXTENDS Integers, Sequences, FiniteSets, TLC

VARIABLES
    \* ---- ledger seen by the scanner
    chain,                 \* block number -> kind of the Mint log in that block
    \* ---- EthereumBlockFetcher
    last_block_file,       \* last_processed_block.json: [exists, last_block]
    mined_file,            \* mined_blocks.json: [exists, mined_blocks, previous_challenge]
    mined_blocks,          \* self.mined_blocks, newest first
    previous_challenge,    \* self.previous_challenge
    scan_pc,               \* position inside run_once
    batch_size,            \* run_once's parameter
    start_block,           \* run_once local
    current_block,         \* run_once local: the head read at the start
    current_start,         \* run_once local
    \* ---- history of the scanner (not program state)
    had_file,              \* the checkpoint file existed when run_once loaded it
    len_at_start,          \* Len(mined_blocks) when run_once started
    fetch_log,             \* windows fetched by the current run_once: <<from, to, ok>>
    folded,                \* events folded by this instance, oldest first
    \* ---- get_storage_with_retry
    rd_pc,                 \* "idle", "loop", "returned" or "raised"
    rd_slot,               \* the slot argument
    rd_retries,            \* the retries argument
    rd_attempt,            \* the local attempt
    rd_result,             \* the value returned or the error raised
    rd_calls,              \* history: remote getStorageAt calls made by this read
    rd_answer,             \* history: what the successful remote call answered
    rd_causes,             \* history: why the remote calls of this read raised
    \* ---- clean_data_keep_targets_and_current applied to an arbitrary store
    cl_pc,                 \* "in", "once" or "twice"
    cl_store,              \* the store given, then the store returned
    cl_once,               \* history: the store after the first clean
    cl_in,                 \* history: the store given to the first clean
    \* ---- ledger seen by the price collector
    profile,               \* how block timestamps run: "steady" or "halted"
    ledger_head,           \* the head block last read
    ticks,                 \* head reads made so far
    \* ---- findPricesAndTimestamps_BWORK.main
    main_pc,               \* "start", "backfill" or "live"
    ArrayOfTimestamps,
    ArrayOfBlocksSearched,
    ArrayOfActualPrices,
    price_file,            \* price_data_bwork.json: [timestamps, blocks, prices]
    missing_timestamps,    \* collect_historical_data: targets still to collect
    item_index,            \* collect_historical_data: i of the loop
    last_op,               \* history: the store operation made last
    last_refine,           \* history: the refinement of the backfill pass just made
    last_saves,            \* history: save_data calls made by the step just taken
    \* ---- one persist operation (open(path, 'w'), json.dump, close) and a reader
    pw_file,               \* the file persisted
    pw_pc,                 \* "closed" or "open"
    pw_disk,               \* the content of the file, in chunks
    pw_old,                \* the complete content before the persist
    pw_new,                \* the complete content being written
    pw_seen,               \* what the reader got when it last read the file
    \* ---- unpack_slot0 applied to a storage word
    sl_pc,                 \* "in" or "out"
    sl_fields,             \* history: the fields the word was packed from
    sl_word,               \* packed: the 256-bit word, as the set of its 1 bits
    sl_out,                \* what unpack_slot0 returned, and the price derived
    \* ---- one store operation (eviction, update_current_price) on any store
    op_pc,                 \* "in" or "out"
    op_name,               \* history: the operation applied
    op_in,                 \* the store given
    op_sample,             \* the current sample given to update_current_price
    op_out,                \* the store returned
    \* ---- estimate_block_from_timestamp on any ledger
    es_pc,                 \* "in" or "out"
    es_in,                 \* the arguments and what the sample read answers
    es_out,                \* the block returned
    \* ---- history of a scanner process that was killed inside run_once
    lost_blocks,           \* the blocks the killed process had fetched and folded
    lost_batch,            \* the batch_size of the run_once it was killed in
    \* ---- getSlot0 applied to the words of the two pools
    gs_pc,                 \* "in" or "out"
    gs_words,              \* the words the two storage reads return
    gs_out,                \* the price returned or the error raised
    \* ---- start_scheduler / stop_scheduler / scheduler_loop of one EthereumBlockFetcher
    running,               \* self.running
    scheduler_thread,      \* self.scheduler_thread: the thread made last, 0 for None
    thread_pc,             \* position of each thread made: in scheduler_loop, or dead
    caller_pc,             \* the calling thread: "idle", or "joining" inside stop_scheduler
    \* ---- a backfill insert followed by get_missing_timestamps, on any store
    ms_pc,                 \* "in" or "out"
    ms_in,                 \* the store, the anchor, and the timestamp the refinement ended at
    ms_out,                \* the store after the insert and the anchors then reported missing
    \* ---- estimation and refinement of one missing target, on any ledger
    rf_pc,                 \* "in" or "out"
    rf_in,                 \* the target and whether the sample read of the estimator answers
    rf_out                 \* the blocks asked from the ledger: sample, estimate, last of the refinement

scanVars == <<chain, last_block_file, mined_file, mined_blocks, previous_challenge,
              scan_pc, batch_size, start_block, current_block, current_start,
              had_file, len_at_start, fetch_log, folded>>

retryVars == <<rd_pc, rd_slot, rd_retries, rd_attempt, rd_result, rd_calls, rd_answer,
               rd_causes>>

cleanVars == <<cl_pc, cl_store, cl_once, cl_in>>

storeVars == <<profile, ledger_head, ticks, main_pc, ArrayOfTimestamps, ArrayOfBlocksSearched,
               ArrayOfActualPrices, price_file, missing_timestamps, item_index, last_op,
               last_refine, last_saves>>

persistVars == <<pw_file, pw_pc, pw_disk, pw_old, pw_new, pw_seen>>

slotVars == <<sl_pc, sl_fields, sl_word, sl_out>>

opVars == <<op_pc, op_name, op_in, op_sample, op_out>>

estVars == <<es_pc, es_in, es_out>>

crashVars == <<lost_blocks, lost_batch>>

composeVars == <<gs_pc, gs_words, gs_out>>

schedVars == <<running, scheduler_thread, thread_pc, caller_pc>>

missVars == <<ms_pc, ms_in, ms_out>>

refineVars == <<rf_pc, rf_in, rf_out>>

vars == <<scanVars, retryVars, cleanVars, storeVars, persistVars, slotVars, opVars,
          estVars, crashVars, composeVars, schedVars, missVars, refineVars>>

notScanVars == <<retryVars, cleanVars, storeVars, persistVars, slotVars, opVars, estVars, crashVars, composeVars, schedVars, missVars, refineVars>>
notRetryVars == <<scanVars, cleanVars, storeVars, persistVars, slotVars, opVars, estVars, crashVars, composeVars, schedVars, missVars, refineVars>>
notCleanVars == <<scanVars, retryVars, storeVars, persistVars, slotVars, opVars, estVars, crashVars, composeVars, schedVars, missVars, refineVars>>
notStoreVars == <<scanVars, retryVars, cleanVars, persistVars, slotVars, opVars, estVars, crashVars, composeVars, schedVars, missVars, refineVars>>
notPersistVars == <<scanVars, retryVars, cleanVars, storeVars, slotVars, opVars, estVars, crashVars, composeVars, schedVars, missVars, refineVars>>
notOpVars == <<scanVars, retryVars, cleanVars, storeVars, persistVars, slotVars, estVars, crashVars, composeVars, schedVars, missVars, refineVars>>
notEstVars == <<scanVars, retryVars, cleanVars, storeVars, persistVars, slotVars, opVars, crashVars, composeVars, schedVars, missVars, refineVars>>
notScanCrashVars == <<retryVars, cleanVars, storeVars, persistVars, slotVars, opVars, estVars, composeVars, schedVars, missVars, refineVars>>
notSlotVars == <<scanVars, retryVars, cleanVars, storeVars, persistVars, opVars, estVars, crashVars, composeVars, schedVars, missVars, refineVars>>
notRefineVars == <<scanVars, retryVars, cleanVars, storeVars, persistVars, slotVars, opVars, estVars, crashVars, composeVars, schedVars, missVars>>
notMissVars == <<scanVars, retryVars, cleanVars, storeVars, persistVars, slotVars, opVars, estVars, crashVars, composeVars, schedVars, refineVars>>
notSchedVars == <<scanVars, retryVars, cleanVars, storeVars, persistVars, slotVars, opVars, estVars, crashVars, composeVars, missVars, refineVars>>
notComposeVars == <<scanVars, retryVars, cleanVars, storeVars, persistVars, slotVars, opVars, estVars, crashVars, schedVars, missVars, refineVars>>

-----------------------------------------------------------------------------
(* Bounds of the model *)

\* blocks eth_block_start .. eth_block_start + MaxBlocks exist on the ledger
MaxBlocks == 2
\* run_once is called with batch_size in 1 .. MaxBatch: up to one window over
\* all the blocks of the ledger
MaxBatch == MaxBlocks + 1
\* at most MaxFolded events are folded by one scanner instance
MaxFolded == 3

-----------------------------------------------------------------------------
(* Program constants *)

eth_block_start == 30111966
\* hex length of '0x' + one 32-byte word: the amount is decoded from data[2:66]
AMOUNT_HEX_LEN == 66
\* hex length of '0x' + three 32-byte words: the challenge is data[130:194]
CHALLENGE_HEX_LEN == 194
\* amount of the synthetic challenge-change record
SENTINEL_AMOUNT == 0 - 1

None == "None"

Min(a, b) == IF a < b THEN a ELSE b
Max(a, b) == IF a > b THEN a ELSE b

-----------------------------------------------------------------------------
(* The ledger as the scanner sees it.  A block holds at most one Mint log; *)
(* its kind says how long its data is and which challenge it carries: a    *)
(* "tiny" log has data too short for an amount or a challenge.             *)

LogKinds == {"none", "tiny", "c1", "c2"}
Blocks == eth_block_start .. (eth_block_start + MaxBlocks)
Heads == (eth_block_start - 1) .. (eth_block_start + MaxBlocks)

\* len(transaction['data'].hex()) of a log of kind k
DataLen(k) == IF k = "tiny" THEN 2 ELSE CHALLENGE_HEX_LEN

MinerOf(b) == IF b % 2 = 0 THEN "m0" ELSE "m1"

\* the log entry get_logs returns for block b
LogOf(b) ==
    [blockNumber |-> b, transactionHash |-> b, miner |-> MinerOf(b),
     dataLen |-> DataLen(chain[b]),
     amount |-> IF DataLen(chain[b]) >= AMOUNT_HEX_LEN THEN 50 ELSE 0,
     challenge |-> IF chain[b] \in {"c1", "c2"} THEN chain[b] ELSE None]

RECURSIVE GetLogs(_, _)
\* w3.eth.get_logs(fromBlock, toBlock): the matching logs, block-ascending
GetLogs(from, to) ==
    IF from > to THEN <<>>
    ELSE (IF chain[from] = "none" THEN <<>> ELSE <<LogOf(from)>>)
         \o GetLogs(from + 1, to)

-----------------------------------------------------------------------------
(* EthereumBlockFetcher *)

\* load_last_processed_block
load_last_processed_block ==
    IF last_block_file.exists THEN last_block_file.last_block ELSE eth_block_start

\* the state process_transaction works on: <<mined_blocks, previous_challenge>>
process_transaction_mut(st, tx) ==
    LET mb == st[1]
        pc == st[2]
        amt == IF tx.dataLen >= AMOUNT_HEX_LEN THEN tx.amount ELSE 0
        changed == tx.dataLen >= CHALLENGE_HEX_LEN /\ pc # tx.challenge
        first_block_num == IF Len(mb) > 0 THEN mb[1][1] ELSE tx.blockNumber
        sentinel == <<first_block_num, tx.transactionHash, tx.miner, SENTINEL_AMOUNT>>
        mb1 == IF changed THEN <<sentinel>> \o mb ELSE mb
    IN  << <<(<<tx.blockNumber, tx.transactionHash, tx.miner, amt>>)>> \o mb1,
           IF changed THEN tx.challenge ELSE pc >>

process_transaction(st, tx) ==
    LET mb == st[1]
        pc == st[2]
        amt == IF tx.dataLen >= AMOUNT_HEX_LEN THEN tx.amount ELSE 0
        changed == tx.dataLen >= CHALLENGE_HEX_LEN /\ pc # tx.challenge
        first_block_num == IF Len(mb) > 0 THEN mb[1][1] ELSE tx.blockNumber
        sentinel == <<first_block_num, tx.transactionHash, tx.miner, SENTINEL_AMOUNT>>
        mb1 == IF changed /\ pc # None THEN <<sentinel>> \o mb ELSE mb
    IN  << <<(<<tx.blockNumber, tx.transactionHash, tx.miner, amt>>)>> \o mb1,
           IF changed THEN tx.challenge ELSE pc >>

RECURSIVE ProcessLogs(_, _)
\* run_once: for transaction in logs: self.process_transaction(transaction)
ProcessLogs(st, logs) ==
    IF logs = <<>> THEN st
    ELSE ProcessLogs(process_transaction(st, Head(logs)), Tail(logs))

\* run_once: current_end = min(current_start + batch_size - 1, current_block)
WindowEnd_mut(cs, bs, head) == Min(cs + bs, head) - 1

WindowEnd(cs, bs, head) == Min(cs + bs - 1, head)

NextStart_mut(current_end) == current_end + 2

\* run_once: current_start = current_end + 1
NextStart(current_end) == current_end + 1

\* run_once: if start_block > current_block: return
UpToDate(start, head) == start > head

\* EthereumBlockFetcher.__init__, with no file on disk yet
ScanFresh ==
    /\ last_block_file = [exists |-> FALSE, last_block |-> 0]
    /\ mined_file = [exists |-> FALSE, mined_blocks |-> <<>>, previous_challenge |-> None]
    /\ mined_blocks = <<>>
    /\ previous_challenge = None
    /\ scan_pc = "idle"
    /\ batch_size = 1
    /\ start_block = 0
    /\ current_block = 0
    /\ current_start = 0
    /\ had_file = FALSE
    /\ len_at_start = 0
    /\ fetch_log = <<>>
    /\ folded = <<>>

ScanInit ==
    /\ chain \in [Blocks -> LogKinds]
    /\ ScanFresh

\* the scanner left out of a specification of another subsystem
ScanIdle ==
    /\ chain = [b \in Blocks |-> "none"]
    /\ ScanFresh

\* run_once up to the loop: load the checkpoint, read the head, compare.
\* When it returns at once its locals are gone (kept at 0 in the model).
RunOnceBegin ==
    /\ scan_pc = "idle"
    /\ \E bs \in 1 .. MaxBatch, head \in Heads :
        IF UpToDate(load_last_processed_block, head)
        THEN /\ scan_pc' = "idle"
             /\ UNCHANGED <<batch_size, start_block, current_block, current_start,
                            had_file, len_at_start>>
        ELSE /\ scan_pc' = "batch"
             /\ batch_size' = bs
             /\ start_block' = load_last_processed_block
             /\ current_block' = head
             /\ current_start' = load_last_processed_block
             /\ had_file' = last_block_file.exists
             /\ len_at_start' = Len(mined_blocks)
    /\ fetch_log' = <<>>
    /\ UNCHANGED <<chain, last_block_file, mined_file, mined_blocks,
                   previous_challenge, folded>>
    /\ UNCHANGED notScanVars

\* one iteration of run_once's while loop; fetch_logs returns [] when get_logs raises
RunOnceBatch ==
    /\ scan_pc = "batch"
    /\ \E ok \in BOOLEAN :
        LET current_end == WindowEnd(current_start, batch_size, current_block)
            logs == IF ok THEN GetLogs(current_start, current_end) ELSE <<>>
            st == ProcessLogs(<<mined_blocks, previous_challenge>>, logs)
        IN  /\ Len(folded) + Len(logs) <= MaxFolded
            /\ mined_blocks' = st[1]
            /\ previous_challenge' = st[2]
            /\ folded' = folded \o logs
            /\ last_block_file' = [exists |-> TRUE, last_block |-> current_end]
            /\ current_start' = NextStart(current_end)
            /\ scan_pc' = IF NextStart(current_end) <= current_block THEN "batch" ELSE "finish"
            /\ fetch_log' = Append(fetch_log, <<current_start, current_end, ok>>)
    /\ UNCHANGED <<chain, mined_file, batch_size, start_block, current_block,
                   had_file, len_at_start>>
    /\ UNCHANGED notScanVars

\* save_mined_blocks_to_file; when get_block('latest') raises nothing is written.
\* run_once returns: its locals are gone (kept at 0 in the model).
RunOnceFinish ==
    /\ scan_pc = "finish"
    /\ \E ok \in BOOLEAN :
        mined_file' = IF ok /\ Len(mined_blocks) > 0
                      THEN [exists |-> TRUE, mined_blocks |-> mined_blocks,
                            previous_challenge |-> previous_challenge]
                      ELSE mined_file
    /\ scan_pc' = "idle"
    /\ batch_size' = 1
    /\ start_block' = 0
    /\ current_block' = 0
    /\ current_start' = 0
    /\ had_file' = FALSE
    /\ len_at_start' = 0
    /\ fetch_log' = <<>>
    /\ UNCHANGED <<chain, last_block_file, mined_blocks, previous_challenge,
                   folded>>
    /\ UNCHANGED notScanVars

\* __main__: a new EthereumBlockFetcher after the process (re)starts
ScanRestart ==
    /\ Len(folded) > 0 \/ scan_pc # "idle"
    /\ mined_blocks' = <<>>
    /\ previous_challenge' = None
    /\ folded' = <<>>
    /\ scan_pc' = "idle"
    /\ batch_size' = 1
    /\ start_block' = 0
    /\ current_block' = 0
    /\ current_start' = 0
    /\ had_file' = FALSE
    /\ len_at_start' = 0
    /\ fetch_log' = <<>>
    /\ UNCHANGED <<chain, last_block_file, mined_file>>
    /\ UNCHANGED notScanVars

ScanNext == RunOnceBegin \/ RunOnceBatch \/ RunOnceFinish \/ ScanRestart

\* a ledger whose events all carry the same challenge
WindowsInit ==
    /\ chain \in [Blocks -> {"none", "c1"}]
    /\ ScanFresh

\* run_once called by an instance that has folded nothing yet
FirstRunOnce ==
    /\ Len(folded) = 0
    /\ RunOnceBegin

\* a new instance, made while no run_once is in progress
IdleRestart ==
    /\ scan_pc = "idle"
    /\ ScanRestart

WindowsNext == FirstRunOnce \/ RunOnceBatch \/ RunOnceFinish \/ IdleRestart

\* no scanner process was killed
CrashIdle ==
    /\ lost_blocks = {}
    /\ lost_batch = 0

\* a ledger with a Mint event in every block: the events folded tell the
\* blocks folded
CrashInit ==
    /\ chain = [b \in Blocks |-> "c1"]
    /\ ScanFresh
    /\ CrashIdle

BlocksOf(events) == {events[i].blockNumber : i \in 1 .. Len(events)}

\* the process is killed inside the while loop after it fetched and folded a
\* window (lines 174-177) and before save_last_processed_block (line 180);
\* a new process starts with an empty memory
CrashInWindow ==
    /\ scan_pc = "batch"
    /\ LET current_end == WindowEnd(current_start, batch_size, current_block)
       IN  lost_blocks' = BlocksOf(folded) \cup BlocksOf(GetLogs(current_start, current_end))
    /\ lost_batch' = batch_size
    /\ mined_blocks' = <<>>
    /\ previous_challenge' = None
    /\ folded' = <<>>
    /\ scan_pc' = "idle"
    /\ batch_size' = 1
    /\ start_block' = 0
    /\ current_block' = 0
    /\ current_start' = 0
    /\ had_file' = FALSE
    /\ len_at_start' = 0
    /\ fetch_log' = <<>>
    /\ UNCHANGED <<chain, last_block_file, mined_file>>
    /\ UNCHANGED notScanCrashVars

\* the process is killed between two windows, or before
\* save_mined_blocks_to_file: after the checkpoint of the last window was saved
CrashAfterSave ==
    /\ scan_pc \in {"batch", "finish"}
    /\ Len(fetch_log) > 0
    /\ lost_blocks' = BlocksOf(folded)
    /\ lost_batch' = batch_size
    /\ mined_blocks' = <<>>
    /\ previous_challenge' = None
    /\ folded' = <<>>
    /\ scan_pc' = "idle"
    /\ batch_size' = 1
    /\ start_block' = 0
    /\ current_block' = 0
    /\ current_start' = 0
    /\ had_file' = FALSE
    /\ len_at_start' = 0
    /\ fetch_log' = <<>>
    /\ UNCHANGED <<chain, last_block_file, mined_file>>
    /\ UNCHANGED notScanCrashVars

CrashNext ==
    RunOnceBegin \/ RunOnceBatch \/ RunOnceFinish \/ CrashInWindow \/ CrashAfterSave


-----------------------------------------------------------------------------
(* Claims about the log scanner, checked under SpecScan *)

\* the persisted checkpoint, as the next run_once will load it
Checkpoint == load_last_processed_block

\* C1: the first window a run_once fetches starts at the persisted checkpoint
\* + 1, and no window of the call reaches down to a block at or below the
\* checkpoint the call resumed from.
C1_ResumeAfterCheckpoint ==
    had_file =>
        \A i \in 1 .. Len(fetch_log) :
            /\ fetch_log[i][1] > start_block
            /\ i = 1 => fetch_log[i][1] = start_block + 1

\* C2: when the fetch of a window fails, no checkpoint at or beyond that
\* window's end is persisted.
C2_FailedWindowNotCheckpointed ==
    \A i \in 1 .. Len(fetch_log) :
        (i = Len(fetch_log) /\ ~fetch_log[i][3]) =>
            (~last_block_file.exists \/ last_block_file.last_block < fetch_log[i][2])

\* C6: the persisted checkpoint never decreases, whatever heads are reported.
C6_CheckpointMonotone == [][Checkpoint' >= Checkpoint]_vars

\* C6 witness: a second run_once, started from a persisted checkpoint, has
\* advanced the checkpoint to the last block of the ledger.
C6_Witness ==
    /\ had_file
    /\ Len(fetch_log) > 0
    /\ last_block_file.exists
    /\ last_block_file.last_block = eth_block_start + MaxBlocks
    /\ last_block_file.last_block > start_block

\* C7: a run_once that finds the persisted checkpoint at or above the head
\* fetches nothing and leaves the event collection unchanged.
C7_NoOpWhenCheckpointAtHead ==
    (had_file /\ start_block >= current_block) =>
        (Len(fetch_log) = 0 /\ Len(mined_blocks) = len_at_start)

\* whether process_transaction decodes a challenge from the event
Decoded(e) == e.dataLen >= CHALLENGE_HEX_LEN

RECURSIVE PrevChallenge(_, _)
\* the challenge of the last event before f[i] that carried one, or None
PrevChallenge(f, i) ==
    IF i <= 1 THEN None
    ELSE IF Decoded(f[i - 1]) THEN f[i - 1].challenge
    ELSE PrevChallenge(f, i - 1)

RECURSIVE ExpectedFlags(_, _)
\* oldest first, for the events f[1..i]: TRUE for a sentinel, FALSE for an event;
\* a sentinel stands before exactly the events whose challenge differs from the
\* preceding challenge
ExpectedFlags(f, i) ==
    IF i = 0 THEN <<>>
    ELSE ExpectedFlags(f, i - 1) \o
         (IF Decoded(f[i]) /\ PrevChallenge(f, i) # None
                           /\ PrevChallenge(f, i) # f[i].challenge
          THEN <<TRUE, FALSE>> ELSE <<FALSE>>)

\* oldest first: whether each record of mined_blocks is a sentinel
ActualFlags ==
    [i \in 1 .. Len(mined_blocks) |->
        mined_blocks[Len(mined_blocks) + 1 - i][4] = SENTINEL_AMOUNT]

\* C8: one sentinel (amount -1) is recorded exactly for each event whose
\* challenge differs from the preceding challenge, none for an unchanged
\* challenge and none for the first event of the instance.
C8_SentinelPerChange == ActualFlags = ExpectedFlags(folded, Len(folded))

\* C8 witness: the instance folded a first event, an event with an unchanged
\* challenge and an event with a changed one.
C8_Witness ==
    /\ Len(folded) >= 3
    /\ Decoded(folded[1]) /\ Decoded(folded[2]) /\ Decoded(folded[3])
    /\ folded[1].challenge = folded[2].challenge
    /\ folded[2].challenge # folded[3].challenge
    /\ Len(mined_blocks) = 4

\* the index of the first event of the challenge that ends at f[i]: the
\* event that opened the run of the challenge preceding f[i]
FirstOfPrevious(f, i) ==
    CHOOSE j \in 1 .. (i - 1) :
        /\ Decoded(f[j]) /\ f[j].challenge = PrevChallenge(f, i)
        /\ PrevChallenge(f, j) # f[j].challenge
        /\ \A m \in j .. (i - 1) : Decoded(f[m]) => f[m].challenge = f[j].challenge

RECURSIVE ExpectedRecords(_, _)
\* oldest first, for the events f[1..i]: the record of each event, preceded on
\* a challenge change by the sentinel <<block of the first event of the
\* previous challenge, hash and miner of the event with the new one, -1>>
ExpectedRecords(f, i) ==
    IF i = 0 THEN <<>>
    ELSE ExpectedRecords(f, i - 1) \o
         (IF Decoded(f[i]) /\ PrevChallenge(f, i) # None
                           /\ PrevChallenge(f, i) # f[i].challenge
          THEN << <<f[FirstOfPrevious(f, i)].blockNumber, f[i].transactionHash,
                    f[i].miner, SENTINEL_AMOUNT>> >>
          ELSE <<>>) \o
         << <<f[i].blockNumber, f[i].transactionHash, f[i].miner, f[i].amount>> >>

\* oldest first: the records of mined_blocks
ActualRecords ==
    [i \in 1 .. Len(mined_blocks) |-> mined_blocks[Len(mined_blocks) + 1 - i]]

\* C19: the sentinel of a challenge change holds the block number of the first
\* event of the challenge that just ended and the transaction hash and miner
\* of the event that brought the new challenge, and it lies in mined_blocks
\* between the last event of the old challenge and the first of the new one.
C19_SentinelFields == ActualRecords = ExpectedRecords(folded, Len(folded))

\* the windows fetched so far by the run_once in progress start at
\* start_block, follow each other without gap or overlap, hold 1 to
\* batch_size blocks each and end at or below the head read at the start
WindowsInOrder ==
    /\ \A i \in 1 .. Len(fetch_log) :
           /\ fetch_log[i][1] <= fetch_log[i][2]
           /\ fetch_log[i][2] - fetch_log[i][1] + 1 <= batch_size
           /\ fetch_log[i][2] <= current_block
           /\ i = 1 => fetch_log[i][1] = start_block
           /\ i > 1 => fetch_log[i][1] = fetch_log[i - 1][2] + 1
    /\ current_start = IF Len(fetch_log) = 0 THEN start_block
                       ELSE fetch_log[Len(fetch_log)][2] + 1

\* the loop of run_once is over: the windows reach the head and the
\* checkpoint saved is the head
WindowsCover ==
    /\ Len(fetch_log) > 0
    /\ fetch_log[Len(fetch_log)][2] = current_block
    /\ last_block_file = [exists |-> TRUE, last_block |-> current_block]

\* C27: for every batch_size >= 1 and a head at or above the start block, a
\* run_once ends; its windows are contiguous, do not overlap, hold at most
\* batch_size blocks each and cover exactly start_block .. head, and the
\* checkpoint equals the head when the loop is over.
C27_WindowsCoverRange ==
    /\ [](scan_pc \in {"batch", "finish"} => WindowsInOrder)
    /\ [](scan_pc = "finish" => WindowsCover)
    /\ (scan_pc = "batch") ~> (scan_pc = "finish")
    /\ (scan_pc = "finish") ~> (scan_pc = "idle")

\* a run_once with batch_size 2 went over the three blocks of the ledger in
\* two windows, every fetch answered
C27_Witness ==
    /\ scan_pc = "finish"
    /\ batch_size = 2
    /\ fetch_log = << <<eth_block_start, eth_block_start + 1, TRUE>>,
                      <<eth_block_start + 2, eth_block_start + 2, TRUE>> >>
    /\ last_block_file.last_block = eth_block_start + 2

\* the blocks the run_once in progress has fetched (with success) that the
\* killed process had folded already
FetchedAgain ==
    {b \in lost_blocks :
        \E i \in 1 .. Len(fetch_log) :
            fetch_log[i][3] /\ fetch_log[i][1] <= b /\ b <= fetch_log[i][2]}

\* C20: inside run_once the persisted checkpoint is the end of the last window
\* completed, and after a process was killed at any point of run_once, the
\* blocks the next process fetches again although they were folded before are
\* at most batch_size (one window).
C20_CrashRefetchesOneWindow ==
    /\ (scan_pc # "idle" /\ Len(fetch_log) > 0) =>
           /\ last_block_file.exists
           /\ last_block_file.last_block = fetch_log[Len(fetch_log)][2]
    /\ lost_batch > 0 => Cardinality(FetchedAgain) <= lost_batch

\* the blocks that have a mined record (not a sentinel) in a list of records
RecordedBlocks(records) ==
    {records[i][1] : i \in {j \in 1 .. Len(records) : records[j][4] # SENTINEL_AMOUNT}}

\* a run_once returns whose fetches all succeeded and whose
\* save_mined_blocks_to_file left the memory's records in mined_blocks.json
CompletedScan ==
    /\ scan_pc = "finish"
    /\ scan_pc' = "idle"
    /\ lost_batch' = lost_batch
    /\ \A i \in 1 .. Len(fetch_log) : fetch_log[i][3]
    /\ mined_file'.exists
    /\ mined_file'.mined_blocks = mined_blocks

\* C21: when a new scanner instance, resumed from the persisted checkpoint,
\* completes a run_once, mined_blocks.json holds the event of every block up
\* to the checkpoint that the instance before it had folded.
C21_ResumeKeepsEvents ==
    [][(CompletedScan /\ lost_batch > 0) =>
          \A b \in lost_blocks :
              b <= last_block_file'.last_block =>
                  b \in RecordedBlocks(mined_file'.mined_blocks)]_vars

-----------------------------------------------------------------------------
(* get_storage_with_retry (findPricesAndTimestamps_BWORK.py and            *)
(* findPricesAndTimestamps.py hold the same function)                      *)

\* retries=5 in the signature
DEFAULT_RETRIES == 5
\* the two pool slots getSlot0 reads
Slots == {"bwork_weth", "weth_usd"}
\* the words the ledger may answer with
Words == {0, 7}

NoResult == [kind |-> "none", value |-> 0, slot |-> None, retries |-> 0]

RetryIdle ==
    /\ rd_pc = "idle"
    /\ rd_slot = None
    /\ rd_retries = 0
    /\ rd_attempt = 0
    /\ rd_result = NoResult
    /\ rd_calls = 0
    /\ rd_answer = NoResult
    /\ rd_causes = {}

\* while attempt < retries
RetryGuard_mut(attempt, retries) == attempt <= retries

RetryGuard(attempt, retries) == attempt < retries

\* raise RuntimeError(f"Failed to fetch storage slot {slot} after {retries} retries")
RetryError(slot, retries) ==
    [kind |-> "RuntimeError", value |-> 0, slot |-> slot, retries |-> retries]

\* the call get_storage_with_retry(address, slot, block, retries); attempt = 0
ReadStart ==
    /\ rd_pc = "idle"
    /\ \E slot \in Slots, retries \in 0 .. DEFAULT_RETRIES :
        /\ rd_slot' = slot
        /\ rd_retries' = retries
    /\ rd_pc' = "loop"
    /\ rd_attempt' = 0
    /\ rd_result' = NoResult
    /\ rd_calls' = 0
    /\ rd_answer' = NoResult
    /\ rd_causes' = {}
    /\ UNCHANGED notRetryVars

\* one pass of the loop whose getStorageAt answers: return int.from_bytes(data)
ReadCallOk ==
    /\ rd_pc = "loop"
    /\ RetryGuard(rd_attempt, rd_retries)
    /\ "permanent" \notin rd_causes
    /\ \E w \in Words :
        /\ rd_result' = [kind |-> "value", value |-> w, slot |-> rd_slot,
                         retries |-> rd_retries]
        /\ rd_answer' = [kind |-> "value", value |-> w, slot |-> rd_slot,
                         retries |-> rd_retries]
    /\ rd_calls' = rd_calls + 1
    /\ rd_pc' = "returned"
    /\ UNCHANGED <<rd_slot, rd_retries, rd_attempt, rd_causes>>
    /\ UNCHANGED notRetryVars

\* what makes the try block raise: a connection error or timeout that may
\* pass ("transient"), or a request or a value that is malformed and stays so
\* ("permanent")
Causes == {"transient", "permanent"}

\* one pass of the loop whose try block raises: except Exception catches the
\* error whatever it is; attempt += 1; sleep
ReadCallFail ==
    /\ rd_pc = "loop"
    /\ RetryGuard(rd_attempt, rd_retries)
    /\ \E cause \in Causes :
        /\ ("permanent" \in rd_causes) => cause = "permanent"
        /\ rd_causes' = rd_causes \cup {cause}
    /\ rd_attempt' = rd_attempt + 1
    /\ rd_calls' = rd_calls + 1
    /\ UNCHANGED <<rd_pc, rd_slot, rd_retries, rd_result, rd_answer>>
    /\ UNCHANGED notRetryVars

\* the loop ends without a return: raise RuntimeError
ReadExhausted ==
    /\ rd_pc = "loop"
    /\ ~RetryGuard(rd_attempt, rd_retries)
    /\ rd_result' = RetryError(rd_slot, rd_retries)
    /\ rd_pc' = "raised"
    /\ UNCHANGED <<rd_slot, rd_retries, rd_attempt, rd_calls, rd_answer, rd_causes>>
    /\ UNCHANGED notRetryVars

\* the caller goes on; the next read starts afresh
ReadDone ==
    /\ rd_pc \in {"returned", "raised"}
    /\ rd_pc' = "idle"
    /\ rd_slot' = None
    /\ rd_retries' = 0
    /\ rd_attempt' = 0
    /\ rd_result' = NoResult
    /\ rd_calls' = 0
    /\ rd_answer' = NoResult
    /\ rd_causes' = {}
    /\ UNCHANGED notRetryVars

RetryNext == ReadStart \/ ReadCallOk \/ ReadCallFail \/ ReadExhausted \/ ReadDone

\* C10: a read makes at most `retries` remote calls, returns the answer of the
\* first call that succeeds without calling again, and raises the error that
\* names the slot and the retry count exactly when `retries` calls have failed.
C10_RetryContract ==
    /\ rd_calls <= rd_retries
    /\ rd_pc = "returned" =>
          /\ rd_result = rd_answer
          /\ rd_result.kind = "value"
          /\ rd_calls = rd_attempt + 1
    /\ rd_pc = "raised" =>
          /\ rd_result = [kind |-> "RuntimeError", value |-> 0,
                          slot |-> rd_slot, retries |-> rd_retries]
          /\ rd_calls = rd_retries
          /\ rd_attempt = rd_retries
          /\ rd_answer = NoResult
    /\ (rd_pc = "loop" /\ rd_attempt = rd_retries) => rd_calls = rd_retries

\* C10 witness: a read with the default 5 retries failed 5 times and raised.
C10_Witness ==
    /\ rd_pc = "raised"
    /\ rd_retries = DEFAULT_RETRIES
    /\ rd_calls = DEFAULT_RETRIES

\* C23: a read that failed for a permanent reason does not end like a read
\* whose transient failures used up the attempts: it does not raise the
\* "after {retries} retries" error.
C23_PermanentDistinct ==
    (rd_pc = "raised" /\ "permanent" \in rd_causes) =>
        rd_result # RetryError(rd_slot, rd_retries)

-----------------------------------------------------------------------------
(* findPricesAndTimestamps_BWORK.py: the snapshot store.  A store is the   *)
(* three parallel lists [timestamps, blocks, prices].                      *)

\* days of targets kept and backfilled: 30 in MAX_DATA_POINTS = 4 * 30 and in
\* target_days=30
TargetDays == 1
\* head reads (main's start and live ticks) made in one behaviour
MaxTicks == 3

MAX_DATA_POINTS == 4 * TargetDays
TARGET_HOURS == {0, 6, 12, 18}
\* tolerance_minutes=30
TOLERANCE_MINUTES == 30
\* 30 * 60: the tolerance of the refinement loop and of get_missing_timestamps
TOLERANCE_SECONDS == 30 * 60
DAY_SECONDS == 24 * 60 * 60
\* attempts < 10
MAX_ATTEMPTS == 10
\* (i + 1) % 20 == 0
SAVE_EVERY == 20

Abs(x) == IF x < 0 THEN 0 - x ELSE x

EmptyStore == [timestamps |-> <<>>, blocks |-> <<>>, prices |-> <<>>]

Store == [timestamps |-> ArrayOfTimestamps, blocks |-> ArrayOfBlocksSearched,
          prices |-> ArrayOfActualPrices]

is_target_time(timestamp, tolerance_minutes) ==
    LET hm == (timestamp % DAY_SECONDS) \div 60     \* hour * 60 + minute
    IN  \E target_hour \in TARGET_HOURS :
            LET minutes_from_target == Abs(hm - target_hour * 60)
            IN  Min(minutes_from_target, 24 * 60 - minutes_from_target)
                    <= tolerance_minutes

\* list.insert(pos, x), pos counted from 0; a pos beyond the end appends
InsertAt(l, pos, x) ==
    LET q == Min(pos, Len(l))
    IN  SubSeq(l, 1, q) \o <<x>> \o SubSeq(l, q + 1, Len(l))

\* the three inserts at one position
StoreInsert(st, pos, ts, b, p) ==
    [timestamps |-> InsertAt(st.timestamps, pos, ts),
     blocks |-> InsertAt(st.blocks, pos, b),
     prices |-> InsertAt(st.prices, pos, p)]

\* the index (from 0) of the first element later than t, or len
FirstLater(tss, t) ==
    IF \E i \in 1 .. Len(tss) : t < tss[i]
    THEN (CHOOSE i \in 1 .. Len(tss) :
              t < tss[i] /\ \A j \in 1 .. (i - 1) : ~(t < tss[j])) - 1
    ELSE Len(tss)

RECURSIVE TargetsFrom(_, _)
\* the samples i .. len of st whose timestamp is a target time, in order
TargetsFrom(st, i) ==
    IF i > Len(st.timestamps) THEN EmptyStore
    ELSE LET rest == TargetsFrom(st, i + 1)
         IN  IF is_target_time(st.timestamps[i], TOLERANCE_MINUTES)
             THEN [timestamps |-> <<st.timestamps[i]>> \o rest.timestamps,
                   blocks |-> <<st.blocks[i]>> \o rest.blocks,
                   prices |-> <<st.prices[i]>> \o rest.prices]
             ELSE rest

\* clean_data_keep_targets_and_current: insert_pos
clean_insert_pos(tss, t) == FirstLater(tss, t)

most_recent_mut(st, non) ==
    CHOOSE i \in non : \A j \in non :
        \/ st.timestamps[i] < st.timestamps[j]
        \/ (st.timestamps[j] = st.timestamps[i] /\ i <= j)

\* non_target_data.sort(key=lambda x: x[0]); non_target_data[-1]: the index
\* of the sample the stable sort by timestamp puts last
most_recent(st, non) ==
    CHOOSE i \in non : \A j \in non :
        \/ st.timestamps[j] < st.timestamps[i]
        \/ (st.timestamps[j] = st.timestamps[i] /\ j <= i)

\* (as below, with insert_pos searched in the list given instead of the cleaned one)
clean_data_keep_targets_and_current_mut(st) ==
    IF Len(st.timestamps) = 0 THEN st
    ELSE LET non == {i \in 1 .. Len(st.timestamps) :
                        ~is_target_time(st.timestamps[i], TOLERANCE_MINUTES)}
             cleaned == TargetsFrom(st, 1)
         IN  IF non = {} THEN cleaned
             ELSE LET mr == most_recent(st, non)
                  IN  StoreInsert(cleaned, FirstLater(st.timestamps, st.timestamps[mr]),
                                  st.timestamps[mr], st.blocks[mr], st.prices[mr])

clean_data_keep_targets_and_current(st) ==
    IF Len(st.timestamps) = 0 THEN st
    ELSE LET non == {i \in 1 .. Len(st.timestamps) :
                        ~is_target_time(st.timestamps[i], TOLERANCE_MINUTES)}
             cleaned == TargetsFrom(st, 1)
         IN  IF non = {} THEN cleaned
             ELSE \* the stable sort by timestamp, then [-1]
                  LET mr == most_recent(st, non)
                  IN  StoreInsert(cleaned,
                                  clean_insert_pos(cleaned.timestamps, st.timestamps[mr]),
                                  st.timestamps[mr], st.blocks[mr], st.prices[mr])

update_insert_pos_mut(tss, t) == Len(tss)

\* update_current_price: insert_pos
update_insert_pos(tss, t) == FirstLater(tss, t)

update_current_price(st, current_timestamp, current_block_, current_price) ==
    LET target == TargetsFrom(st, 1)
    IN  StoreInsert(target, update_insert_pos(target.timestamps, current_timestamp),
                    current_timestamp, current_block_, current_price)

\* main, target branch: insert_pos
live_insert_pos(tss, t) == FirstLater(tss, t)

pop0_mut(st) ==
    [timestamps |-> SubSeq(st.timestamps, 1, Len(st.timestamps) - 1),
     blocks |-> SubSeq(st.blocks, 1, Len(st.blocks) - 1),
     prices |-> SubSeq(st.prices, 1, Len(st.prices) - 1)]

\* the three pop(0)
pop0(st) ==
    [timestamps |-> Tail(st.timestamps), blocks |-> Tail(st.blocks),
     prices |-> Tail(st.prices)]

\* main: while len(ArrayOfTimestamps) > MAX_DATA_POINTS: pop(0)
RECURSIVE evict(_)
evict(st) ==
    IF Len(st.timestamps) > MAX_DATA_POINTS THEN evict(pop0(st)) ELSE st

backfill_insert_pos_mut(tss, t) == 0

\* collect_historical_data: insert_pos, the length of the run of leading
\* timestamps that actual_timestamp is greater than
backfill_insert_pos(tss, t) ==
    IF \E j \in 1 .. Len(tss) : ~(t > tss[j])
    THEN (CHOOSE j \in 1 .. Len(tss) :
              ~(t > tss[j]) /\ \A k \in 1 .. (j - 1) : t > tss[k]) - 1
    ELSE Len(tss)

-----------------------------------------------------------------------------
(* The ledger as the price collector sees it: getBlock(b)["timestamp"] and  *)
(* the price getSlot0(b) derives.  A "steady" ledger has a block every 2    *)
(* seconds; a "halted" one stood still for two hours after HALT_BLOCK.      *)

BLOCK_SECONDS == 2
\* block 0 was produced at 12:30 on day 0
GENESIS_TIMESTAMP == 45000
\* the block of 05:00 on day 1
HALT_BLOCK == 29700
HALT_SECONDS == 7200
\* the head when main first starts: 13:00 on day 1 of a steady ledger
START_HEAD == 44100
\* blocks between two reads of the head: none, or 5 hours
HeadSteps == {0, 9000}
Profiles == {"steady", "halted"}

TsOf(b) ==
    IF profile = "halted" /\ b > HALT_BLOCK
    THEN GENESIS_TIMESTAMP + BLOCK_SECONDS * b + HALT_SECONDS
    ELSE GENESIS_TIMESTAMP + BLOCK_SECONDS * b

\* getBlock(b) answers for the blocks up to the head and raises otherwise
BlockExists(b) == 0 <= b /\ b <= ledger_head

PriceOf(b) == 1 + (b % 3)

RECURSIVE GCD(_, _)
GCD(a, b) == IF b = 0 THEN a ELSE GCD(b, a % b)

\* trunc(time_diff * b / a), computed without a product beyond 2^31
ExactQuotient(time_diff, a, b) == (time_diff \div a) * b + ((time_diff % a) * b) \div a

\* <<time_diff, a, b>> (a / b in lowest terms) among the inputs of this model
\* on which the two double divisions time_diff / (a / b) end just below the
\* integer time_diff * b / a, so that int() returns one less: a / b is rounded
\* up to the nearest double, and so is not for 2 / 1 and 13 / 6
FloatShort == {<<64803, 21601, 10800>>, <<108005, 21601, 10800>>}

\* int(time_diff / seconds_per_block) for seconds_per_block =
\* actual_time_diff / actual_block_diff, both divisions in doubles
FloatQuotient(time_diff, actual_time_diff, actual_block_diff) ==
    LET g == GCD(actual_time_diff, actual_block_diff)
        a == actual_time_diff \div g
        b == actual_block_diff \div g
    IN  ExactQuotient(time_diff, a, b) - (IF <<time_diff, a, b>> \in FloatShort THEN 1 ELSE 0)

\* estimate_block_from_timestamp, given what getBlock(sample_block_24h_ago)
\* answered: sample_ok is FALSE when it raised (the except branch estimates
\* with 2 seconds per block), sample_timestamp is its timestamp otherwise
estimate(target_timestamp, current_block_, current_timestamp, sample_ok, sample_timestamp) ==
    LET actual_time_diff == current_timestamp - sample_timestamp
        actual_block_diff == current_block_ - Max(1, current_block_ - DAY_SECONDS \div 2)
        time_diff == current_timestamp - target_timestamp
        blocks_diff ==
            IF sample_ok /\ actual_block_diff > 0 /\ actual_time_diff > 0
            THEN FloatQuotient(time_diff, actual_time_diff, actual_block_diff)
            ELSE time_diff \div 2
    IN  Max(1, current_block_ - blocks_diff)

\* estimate_block_from_timestamp on the ledger of the price collector
estimate_block_from_timestamp(target_timestamp, current_block_, current_timestamp, sample_ok) ==
    estimate(target_timestamp, current_block_, current_timestamp, sample_ok,
             TsOf(Max(1, current_block_ - DAY_SECONDS \div 2)))

RECURSIVE refine(_, _, _, _)
\* collect_historical_data: the fine-tuning loop, from an estimate whose
\* timestamp was read; ok is FALSE when a getBlock of the loop raises
refine(target_timestamp, estimated_block, actual_timestamp, attempts) ==
    IF Abs(actual_timestamp - target_timestamp) > TOLERANCE_SECONDS
       /\ attempts < MAX_ATTEMPTS
    THEN LET next_block ==
                 IF actual_timestamp < target_timestamp
                 THEN estimated_block + (target_timestamp - actual_timestamp) \div 2
                 ELSE estimated_block - (actual_timestamp - target_timestamp) \div 2
         IN  IF BlockExists(next_block)
             THEN refine(target_timestamp, next_block, TsOf(next_block), attempts + 1)
             ELSE [ok |-> FALSE, block |-> next_block, timestamp |-> 0,
                   attempts |-> attempts]
    ELSE [ok |-> TRUE, block |-> estimated_block, timestamp |-> actual_timestamp,
          attempts |-> attempts]

refinement_mut(target_timestamp, estimated_block) ==
    LET found == refine(target_timestamp, estimated_block, TsOf(estimated_block), 0)
    IN  IF found.ok /\ Abs(found.timestamp - target_timestamp) > TOLERANCE_SECONDS
        THEN [found EXCEPT !.ok = FALSE]
        ELSE found

\* collect_historical_data, lines 324-337: read the estimated block, then
\* fine-tune from attempts = 0
refinement(target_timestamp, estimated_block) ==
    refine(target_timestamp, estimated_block, TsOf(estimated_block), 0)

\* no backfill pass was just made
NoRefine == [made |-> FALSE, reads_ok |-> FALSE, ok |-> FALSE, attempts |-> 0,
             target |-> 0, block |-> 0, timestamp |-> 0]

\* get_target_timestamps_for_day
get_target_timestamps_for_day(day_timestamp) ==
    LET start_of_day == day_timestamp - (day_timestamp % DAY_SECONDS)
    IN  {start_of_day + hour * 3600 : hour \in TARGET_HOURS}

RECURSIVE SortedSeq(_)
\* list.sort() of distinct integers
SortedSeq(S) ==
    IF S = {} THEN <<>>
    ELSE LET m == CHOOSE x \in S : \A y \in S : x <= y
         IN  <<m>> \o SortedSeq(S \ {m})

get_missing_timestamps(timestamps, current_timestamp, target_days) ==
    LET existing_target_times ==
            {timestamps[i] : i \in {j \in 1 .. Len(timestamps) :
                                      is_target_time(timestamps[j], TOLERANCE_MINUTES)}}
        candidates ==
            UNION {get_target_timestamps_for_day(current_timestamp - days_back * DAY_SECONDS) :
                       days_back \in 0 .. (target_days - 1)}
    IN  SortedSeq({target_ts \in candidates :
                      /\ target_ts < current_timestamp
                      /\ target_ts \notin existing_target_times
                      /\ ~\E existing_ts \in existing_target_times :
                             Abs(existing_ts - target_ts) < TOLERANCE_SECONDS})

\* the price collector before main runs
StoreFresh ==
    /\ ledger_head = START_HEAD
    /\ ticks = 0
    /\ main_pc = "start"
    /\ ArrayOfTimestamps = <<>>
    /\ ArrayOfBlocksSearched = <<>>
    /\ ArrayOfActualPrices = <<>>
    /\ price_file = EmptyStore
    /\ missing_timestamps = <<>>
    /\ item_index = 0
    /\ last_op = "none"
    /\ last_refine = NoRefine
    /\ last_saves = 0

\* the price collector left out of a specification of another subsystem
StoreIdle ==
    /\ profile = "steady"
    /\ StoreFresh

StoreInit ==
    /\ profile \in Profiles
    /\ StoreFresh

\* what save_data leaves in the file: the lists, or the old content when the
\* write raises (save_data catches it)
Saved(st, wrote) == IF wrote THEN st ELSE price_file

\* main up to the backfill loop: load_data, clean, read the head, and
\* collect_historical_data up to its loop.
\*   r = "no_head":     the head cannot be read, main returns and is called again
\*   r = "no_backfill": collect_historical_data cannot read the head and returns
\*   r = "ok":          the missing targets are computed
MainStart ==
    /\ main_pc = "start"
    /\ ticks < MaxTicks
    /\ \E d \in HeadSteps, r \in {"ok", "no_head", "no_backfill"}, wrote \in BOOLEAN :
        LET cleaned == clean_data_keep_targets_and_current(price_file)
            missing == get_missing_timestamps(cleaned.timestamps,
                                              TsOf(ledger_head + d), TargetDays)
        IN  /\ ledger_head' = ledger_head + d
            /\ ArrayOfTimestamps' = cleaned.timestamps
            /\ ArrayOfBlocksSearched' = cleaned.blocks
            /\ ArrayOfActualPrices' = cleaned.prices
            /\ item_index' = 0
            /\ IF r = "no_head"
               THEN /\ main_pc' = "start"
                    /\ missing_timestamps' = <<>>
                    /\ last_saves' = 0
                    /\ UNCHANGED price_file
               ELSE IF r = "no_backfill" \/ missing = <<>>
               THEN /\ main_pc' = "live"
                    /\ missing_timestamps' = <<>>
                    /\ last_saves' = 1
                    /\ price_file' = Saved(cleaned, wrote)
               ELSE /\ main_pc' = "backfill"
                    /\ missing_timestamps' = missing
                    /\ last_saves' = 0
                    /\ UNCHANGED price_file
    /\ ticks' = ticks + 1
    /\ last_op' = "clean"
    /\ last_refine' = NoRefine
    /\ UNCHANGED profile
    /\ UNCHANGED notStoreVars

item_raises_mut(r, found) == ~found.ok

\* the try body of a pass raises before its inserts: a read of the pass
\* (getBlock of the estimate, getSlot0) or a getBlock of the fine-tuning
\* raises; except Exception: continue
item_raises(r, found) == r = "fail" \/ ~found.ok

\* one pass of collect_historical_data's loop, and after the last pass main's
\* save_data.
\*   r = "ok":       every read answers
\*   r = "fallback": getBlock(sample_block_24h_ago) raises inside the estimator
\*   r = "fail":     a read of the pass raises; the target is skipped
BackfillItem ==
    /\ main_pc = "backfill"
    /\ \E r \in {"ok", "fallback", "fail"}, wrote \in BOOLEAN :
        LET target_timestamp == Head(missing_timestamps)
            estimated_block ==
                estimate_block_from_timestamp(target_timestamp, ledger_head,
                                              TsOf(ledger_head), r # "fallback")
            found == refinement(target_timestamp, estimated_block)
            inserted == ~item_raises(r, found)
            st == IF inserted
                  THEN StoreInsert(Store,
                                   backfill_insert_pos(ArrayOfTimestamps, found.timestamp),
                                   found.timestamp, found.block, PriceOf(found.block))
                  ELSE Store
            last == Len(missing_timestamps) = 1
        IN  /\ ArrayOfTimestamps' = st.timestamps
            /\ ArrayOfBlocksSearched' = st.blocks
            /\ ArrayOfActualPrices' = st.prices
            /\ price_file' = IF last \/ (inserted /\ (item_index + 1) % SAVE_EVERY = 0)
                             THEN Saved(st, wrote) ELSE price_file
            /\ last_saves' = (IF inserted /\ (item_index + 1) % SAVE_EVERY = 0 THEN 1 ELSE 0)
                              + (IF last THEN 1 ELSE 0)
            /\ last_op' = IF inserted THEN "backfill" ELSE "skip"
            /\ last_refine' = [made |-> TRUE, reads_ok |-> r # "fail", ok |-> found.ok,
                                attempts |-> found.attempts, target |-> target_timestamp,
                                block |-> found.block, timestamp |-> found.timestamp]
            /\ main_pc' = IF last THEN "live" ELSE "backfill"
    /\ missing_timestamps' = Tail(missing_timestamps)
    /\ item_index' = item_index + 1
    /\ UNCHANGED <<profile, ledger_head, ticks>>
    /\ UNCHANGED notStoreVars

\* one pass of main's monitoring loop, the head having moved by d blocks.
\*   r = "fail": the head or the price cannot be read; nothing is stored
Tick(d) ==
    /\ main_pc = "live"
    /\ ticks < MaxTicks
    /\ \E r \in {"ok", "fail"}, wrote \in BOOLEAN :
        LET current_block_ == ledger_head + d
            current_timestamp == TsOf(current_block_)
            current_price == PriceOf(current_block_)
            is_current_target == is_target_time(current_timestamp, TOLERANCE_MINUTES)
            added == StoreInsert(Store,
                                 live_insert_pos(ArrayOfTimestamps, current_timestamp),
                                 current_timestamp, current_block_, current_price)
            st == IF r = "fail" THEN Store
                  ELSE IF is_current_target
                  THEN evict(added)
                  ELSE update_current_price(Store, current_timestamp, current_block_,
                                            current_price)
        IN  /\ ledger_head' = current_block_
            /\ ArrayOfTimestamps' = st.timestamps
            /\ ArrayOfBlocksSearched' = st.blocks
            /\ ArrayOfActualPrices' = st.prices
            /\ price_file' = IF r = "fail" THEN price_file ELSE Saved(st, wrote)
            /\ last_saves' = IF r = "fail" THEN 0 ELSE 1
            /\ last_op' = IF r = "fail" THEN "skip"
                          ELSE IF ~is_current_target THEN "upsert"
                          ELSE IF Len(added.timestamps) > MAX_DATA_POINTS
                          THEN "live_insert_evict" ELSE "live_insert"
    /\ ticks' = ticks + 1
    /\ last_refine' = NoRefine
    /\ UNCHANGED <<profile, main_pc, missing_timestamps, item_index>>
    /\ UNCHANGED notStoreVars

LiveTick == \E d \in HeadSteps : Tick(d)

\* time.sleep(5 * 60) between two passes: 150 blocks of 2 seconds
TICK_BLOCKS == (5 * 60) \div BLOCK_SECONDS

\* a pass of the monitoring loop five minutes after the one before
LiveTickFive == Tick(TICK_BLOCKS)

\* the heads at which the monitoring loop is entered: 11:20 to 11:45 and
\* 12:25 to 12:40 on day 1, around the window of the anchor 12:00
LiveHeads == {41100 + k * TICK_BLOCKS : k \in 0 .. 5} \cup {43050 + k * TICK_BLOCKS : k \in 0 .. 3}

\* main enters the monitoring loop with an empty store: no file, and
\* collect_historical_data could not read the head
LiveInit ==
    /\ profile \in Profiles
    /\ ledger_head \in LiveHeads
    /\ ticks = 0
    /\ main_pc = "live"
    /\ ArrayOfTimestamps = <<>>
    /\ ArrayOfBlocksSearched = <<>>
    /\ ArrayOfActualPrices = <<>>
    /\ price_file = EmptyStore
    /\ missing_timestamps = <<>>
    /\ item_index = 0
    /\ last_op = "none"
    /\ last_refine = NoRefine
    /\ last_saves = 0

LiveNext == LiveTickFive

\* the process ends and __main__ (or the operator) starts main again: the
\* lists in memory are gone, the file stays
MainRestart ==
    /\ main_pc # "start"
    /\ main_pc' = "start"
    /\ ArrayOfTimestamps' = <<>>
    /\ ArrayOfBlocksSearched' = <<>>
    /\ ArrayOfActualPrices' = <<>>
    /\ missing_timestamps' = <<>>
    /\ item_index' = 0
    /\ last_op' = "none"
    /\ last_refine' = NoRefine
    /\ last_saves' = 0
    /\ UNCHANGED <<profile, ledger_head, ticks, price_file>>
    /\ UNCHANGED notStoreVars

StoreNext == MainStart \/ BackfillItem \/ LiveTick \/ MainRestart

NonDecreasing(tss) == \A i \in 1 .. (Len(tss) - 1) : tss[i] <= tss[i + 1]

NonTargets(tss) == {i \in 1 .. Len(tss) : ~is_target_time(tss[i], TOLERANCE_MINUTES)}

\* C3: after every store operation (backfill insert, live anchor insert,
\* upsert of the current sample, clean, eviction) the stored timestamps are
\* non-decreasing in storage order, in memory and in the saved file, and the
\* three lists stay co-indexed.
C3_TimestampsSorted ==
    /\ NonDecreasing(ArrayOfTimestamps)
    /\ NonDecreasing(price_file.timestamps)
    /\ Len(ArrayOfBlocksSearched) = Len(ArrayOfTimestamps)
    /\ Len(ArrayOfActualPrices) = Len(ArrayOfTimestamps)

\* a live anchor insert that evicted, on a store of backfilled anchors
C3_Witness ==
    /\ last_op = "live_insert_evict"
    /\ Len(ArrayOfTimestamps) = MAX_DATA_POINTS
    /\ \E i \in 1 .. (Len(ArrayOfTimestamps) - 1) :
           ArrayOfTimestamps[i] < ArrayOfTimestamps[i + 1]

\* C4: the store never holds more than one sample whose timestamp is outside
\* the 30-minute tolerance of an anchor hour.
C4_AtMostOneNonTarget == Cardinality(NonTargets(ArrayOfTimestamps)) <= 1

\* C5: the store never holds more than MAX_DATA_POINTS samples.
C5_AtMostMaxDataPoints == Len(ArrayOfTimestamps) <= MAX_DATA_POINTS

\* C25: every pass of the monitoring loop calls save_data once before it
\* waits, on the insert branch and on the update_current_price branch alike.
C25_TickPersists ==
    [][(main_pc = "live" /\ main_pc' = "live" /\ ticks' = ticks + 1) => last_saves' = 1]_vars

\* the anchor hour nearest to a timestamp
AnchorOf(timestamp) == ((timestamp + 3 * 3600) \div (6 * 3600)) * (6 * 3600)

\* C30: the monitoring loop adds at most one sample inside the tolerance
\* window of an anchor, whatever the number of its passes inside the window.
C30_OneSamplePerAnchor ==
    \A i, j \in 1 .. Len(ArrayOfTimestamps) :
        (i < j /\ is_target_time(ArrayOfTimestamps[i], TOLERANCE_MINUTES)
               /\ is_target_time(ArrayOfTimestamps[j], TOLERANCE_MINUTES)) =>
            AnchorOf(ArrayOfTimestamps[i]) # AnchorOf(ArrayOfTimestamps[j])

StrictlyIncreasing(tss) == \A i \in 1 .. (Len(tss) - 1) : tss[i] < tss[i + 1]

\* a pass of the backfill loop in which a read raised
FailedPass ==
    /\ main_pc = "backfill"
    /\ last_refine'.made
    /\ ~last_refine'.reads_ok \/ ~last_refine'.ok

\* C24: a pass of the backfill loop that fails leaves the store as it was (no
\* sample for its target, the earlier samples intact) and does not end the
\* loop: the next pass takes the next missing target, a later one.
C24_FailureSkipsItem ==
    [][FailedPass =>
          /\ ArrayOfTimestamps' = ArrayOfTimestamps
          /\ ArrayOfBlocksSearched' = ArrayOfBlocksSearched
          /\ ArrayOfActualPrices' = ArrayOfActualPrices
          /\ StrictlyIncreasing(missing_timestamps)
          /\ missing_timestamps' = Tail(missing_timestamps)
          /\ (missing_timestamps' # <<>>) => main_pc' = "backfill"
          /\ (missing_timestamps' = <<>>) => main_pc' = "live"]_vars

\* a pass failed on a read, after a sample was stored and with a target
\* still to collect
C24_Witness ==
    /\ main_pc = "backfill"
    /\ last_refine.made /\ ~last_refine.reads_ok
    /\ last_op = "skip"
    /\ Len(ArrayOfTimestamps) > 0
    /\ Len(missing_timestamps) > 0

\* the refinement just made had every block it asked for and ended further
\* than the tolerance from its target
Degraded ==
    /\ last_refine.made /\ BlockExists(last_refine.block)
    /\ Abs(last_refine.timestamp - last_refine.target) > TOLERANCE_SECONDS

\* C16: the refinement loop makes at most MAX_ATTEMPTS correction steps on
\* every ledger; when it ends further than the tolerance from the target it
\* has made them all, and the pass does not fail for that: with the price
\* read, a sample is inserted at the last estimate.
C16_RefinementHalts ==
    /\ last_refine.attempts <= MAX_ATTEMPTS
    /\ Degraded => last_refine.attempts = MAX_ATTEMPTS
    /\ (Degraded /\ last_refine.reads_ok) =>
           /\ last_op = "backfill"
           /\ \E i \in 1 .. Len(ArrayOfTimestamps) :
                  /\ ArrayOfTimestamps[i] = last_refine.timestamp
                  /\ ArrayOfBlocksSearched[i] = last_refine.block
                  /\ ArrayOfActualPrices[i] = PriceOf(last_refine.block)

\* a pass whose refinement made all its steps and ended two hours from the
\* target, and whose sample is in the store
C16_Witness ==
    /\ Degraded /\ last_refine.reads_ok
    /\ last_refine.attempts = MAX_ATTEMPTS
    /\ last_refine.target - last_refine.timestamp = HALT_SECONDS
    /\ \E i \in 1 .. Len(ArrayOfTimestamps) : ArrayOfTimestamps[i] = last_refine.timestamp

-----------------------------------------------------------------------------
(* clean_data_keep_targets_and_current on any store: the lists main loads  *)
(* from price_data_bwork.json are cleaned before anything else.            *)

\* samples of a store given to clean
MaxCleanLen == 3
\* timestamps of the samples: 00:00 and 00:30 (targets), 00:31 and 03:00 (not
\* targets), 06:00 (target)
CleanTimestamps == {0, 1800, 1860, 10800, 21600}
CleanBlocks == {1, 2}

CleanSamples == [ts : CleanTimestamps, block : CleanBlocks]

StoreOf(samples) ==
    [timestamps |-> [i \in 1 .. Len(samples) |-> samples[i].ts],
     blocks |-> [i \in 1 .. Len(samples) |-> samples[i].block],
     prices |-> [i \in 1 .. Len(samples) |-> samples[i].block * 10]]

CleanIdle ==
    /\ cl_pc = "in"
    /\ cl_store = EmptyStore
    /\ cl_once = EmptyStore
    /\ cl_in = EmptyStore

CleanInit ==
    /\ cl_pc = "in"
    /\ \E n \in 0 .. MaxCleanLen :
          \E samples \in [1 .. n -> CleanSamples] : cl_store = StoreOf(samples)
    /\ cl_once = EmptyStore
    /\ cl_in = cl_store

\* clean(S)
CleanOnce ==
    /\ cl_pc = "in"
    /\ cl_store' = clean_data_keep_targets_and_current(cl_store)
    /\ cl_once' = clean_data_keep_targets_and_current(cl_store)
    /\ cl_pc' = "once"
    /\ UNCHANGED cl_in
    /\ UNCHANGED notCleanVars

\* clean(clean(S))
CleanTwice ==
    /\ cl_pc = "once"
    /\ cl_store' = clean_data_keep_targets_and_current(cl_store)
    /\ cl_pc' = "twice"
    /\ UNCHANGED <<cl_once, cl_in>>
    /\ UNCHANGED notCleanVars

CleanNext == CleanOnce \/ CleanTwice

\* C9: clean is idempotent, on sorted and unsorted stores alike:
\* clean(clean(S)) = clean(S) in timestamps, blocks and prices.
C9_CleanIdempotent == cl_pc = "twice" => cl_store = cl_once

\* the samples of a store, as <<timestamp, block, price>>
Zip(st) == [i \in 1 .. Len(st.timestamps) |-> <<st.timestamps[i], st.blocks[i], st.prices[i]>>]

IsTargetSample(x) == is_target_time(x[1], TOLERANCE_MINUTES)

\* a sequence without its element p
RemoveAt(l, p) == SubSeq(l, 1, p - 1) \o SubSeq(l, p + 1, Len(l))

CoIndexed(st) ==
    /\ Len(st.blocks) = Len(st.timestamps)
    /\ Len(st.prices) = Len(st.timestamps)

\* C17: clean keeps every target sample, in order and with its own block and
\* price, plus exactly one non-target sample, one of greatest timestamp among
\* the non-target samples given (when there is any), and nothing else; the
\* empty store is returned empty.
C17_CleanKeeps ==
    cl_pc # "in" =>
        LET in == Zip(cl_in)
            out == Zip(cl_once)
            non == {i \in 1 .. Len(in) : ~IsTargetSample(in[i])}
        IN  /\ CoIndexed(cl_once)
            /\ (in = <<>>) => (cl_once = EmptyStore)
            /\ (non = {}) => (out = in)
            /\ (non # {}) =>
                   \E p \in 1 .. Len(out) :
                       /\ RemoveAt(out, p) = SelectSeq(in, IsTargetSample)
                       /\ \E i \in non : /\ out[p] = in[i]
                                         /\ \A j \in non : in[j][1] <= in[i][1]

\* a clean that kept the later of two non-target samples and dropped the
\* earlier one, next to a target
C17_Witness ==
    /\ cl_pc = "once"
    /\ cl_in.timestamps = <<10800, 1860, 21600>>
    /\ cl_once.timestamps = <<10800, 21600>>

\* C9 witness: a second clean of a store that the first clean took a sample
\* out of and that keeps a current sample before a target.
C9_Witness ==
    /\ cl_pc = "twice"
    /\ Len(cl_once.timestamps) = 2
    /\ ~is_target_time(cl_once.timestamps[1], TOLERANCE_MINUTES)
    /\ is_target_time(cl_once.timestamps[2], TOLERANCE_MINUTES)

-----------------------------------------------------------------------------
(* The eviction loop of main and update_current_price, on any store: short  *)
(* stores of target and non-target samples in any order, and stores longer  *)
(* than MAX_DATA_POINTS.                                                    *)

\* samples a store given to the eviction loop may hold beyond MAX_DATA_POINTS
MaxOverflow == 3

\* the current sample: its block differs from the blocks of stored samples
OpSamples == [ts : CleanTimestamps, block : {3}]
\* samples of the long stores: a target and a non-target
LongSamples == {[ts |-> 0, block |-> 1], [ts |-> 10800, block |-> 2]}

ShortStores ==
    UNION {{StoreOf(samples) : samples \in [1 .. n -> CleanSamples]} : n \in 0 .. MaxCleanLen}

LongStores ==
    UNION {{StoreOf(samples) : samples \in [1 .. n -> LongSamples]} :
               n \in (MAX_DATA_POINTS + 1) .. (MAX_DATA_POINTS + MaxOverflow)}

NoSample == [ts |-> 0, block |-> 3]

OpIdle ==
    /\ op_pc = "in"
    /\ op_name = "none"
    /\ op_in = EmptyStore
    /\ op_sample = NoSample
    /\ op_out = EmptyStore

OpInit ==
    /\ op_pc = "in"
    /\ op_name = "none"
    /\ \/ op_in \in ShortStores /\ op_sample \in OpSamples
       \/ op_in \in LongStores /\ op_sample = NoSample
    /\ op_out = EmptyStore

\* main: while len(ArrayOfTimestamps) > MAX_DATA_POINTS: pop(0) three times
EvictOp ==
    /\ op_pc = "in"
    /\ op_out' = evict(op_in)
    /\ op_name' = "evict"
    /\ op_pc' = "out"
    /\ UNCHANGED <<op_in, op_sample>>
    /\ UNCHANGED notOpVars

\* update_current_price(timestamps, blocks, prices, current_timestamp,
\* current_block, current_price)
UpdateOp ==
    /\ op_pc = "in"
    /\ op_out' = update_current_price(op_in, op_sample.ts, op_sample.block,
                                      op_sample.block * 10)
    /\ op_name' = "update"
    /\ op_pc' = "out"
    /\ UNCHANGED <<op_in, op_sample>>
    /\ UNCHANGED notOpVars

OpNext == EvictOp \/ UpdateOp

\* C14: eviction of a store of n samples removes exactly the n - MAX_DATA_POINTS
\* samples at the front (the oldest end) when n > MAX_DATA_POINTS and nothing
\* otherwise; the samples left keep their order and their own timestamp,
\* block and price.
C14_EvictOldest ==
    op_name = "evict" =>
        LET n == Len(op_in.timestamps)
            k == IF n > MAX_DATA_POINTS THEN n - MAX_DATA_POINTS ELSE 0
        IN  /\ CoIndexed(op_out)
            /\ Zip(op_out) = SubSeq(Zip(op_in), k + 1, n)

\* an eviction that removed MaxOverflow samples, the first of them unlike the
\* first one left
C14_Witness ==
    /\ op_name = "evict"
    /\ Len(op_in.timestamps) = MAX_DATA_POINTS + MaxOverflow
    /\ Len(op_out.timestamps) = MAX_DATA_POINTS
    /\ op_in.blocks[1] # op_out.blocks[1]
    /\ op_out.blocks[1] # op_out.blocks[MAX_DATA_POINTS]

\* C18: update_current_price leaves the target samples as they are and in
\* their order, removes every non-target sample stored, and adds exactly the
\* new sample, after the targets not later than it and before the first target
\* later than it; the three lists stay co-indexed.
C18_UpsertFrame ==
    op_name = "update" =>
        LET in == Zip(op_in)
            out == Zip(op_out)
            new == <<op_sample.ts, op_sample.block, op_sample.block * 10>>
            targets == SelectSeq(in, IsTargetSample)
        IN  /\ CoIndexed(op_out)
            /\ \E p \in 1 .. Len(out) :
                   /\ out[p] = new
                   /\ RemoveAt(out, p) = targets
                   /\ (\A i \in 1 .. (Len(targets) - 1) : targets[i][1] <= targets[i + 1][1])
                        => /\ \A i \in 1 .. (p - 1) : out[i][1] <= new[1]
                           /\ \A i \in (p + 1) .. Len(out) : new[1] < out[i][1]

\* an update that removed a non-target sample and put the new one between
\* two targets
C18_Witness ==
    /\ op_name = "update"
    /\ op_in.timestamps = <<0, 1860, 21600>>
    /\ op_out.timestamps = <<0, 10800, 21600>>
    /\ op_out.blocks[2] = 3

-----------------------------------------------------------------------------
(* estimate_block_from_timestamp on any ledger: the head, what the block    *)
(* 43200 blocks back (or block 1) answers, and a target in the past.        *)

\* current_timestamp of every call
EST_NOW == 200000000

\* <<current_block, current_timestamp - sample timestamp>>: the first block;
\* a young ledger at 2 s per block; an old one at 2 s, at 86404 s per 43200
\* blocks, and after a halt of 2 hours
EstLedgers == {<<1, 0>>, <<1000, 1998>>, <<100000, 86400>>, <<100000, 86404>>,
               <<100000, 93600>>}
\* current_timestamp - target_timestamp
EstTimeDiffs == {0, 1, 100, 46800, 64803, 64804, 108005, 250000}

EstInputs ==
    {[current_block |-> l[1], sample_timestamp |-> EST_NOW - l[2],
      target_timestamp |-> EST_NOW - d, sample_ok |-> ok] :
         l \in EstLedgers, d \in EstTimeDiffs, ok \in BOOLEAN}

NoEstimate == [current_block |-> 1, sample_timestamp |-> EST_NOW,
               target_timestamp |-> EST_NOW, sample_ok |-> TRUE]

EstIdle ==
    /\ es_pc = "in"
    /\ es_in = NoEstimate
    /\ es_out = 0

EstInit ==
    /\ es_pc = "in"
    /\ es_in \in EstInputs
    /\ es_out = 0

Estimate ==
    /\ es_pc = "in"
    /\ es_out' = estimate(es_in.target_timestamp, es_in.current_block, EST_NOW,
                          es_in.sample_ok, es_in.sample_timestamp)
    /\ es_pc' = "out"
    /\ UNCHANGED es_in
    /\ UNCHANGED notEstVars

EstNext == Estimate

\* C15: when the reference block is read, the estimate is
\* max(1, currentBlock - trunc((currentTimestamp - targetTimestamp) / secondsPerBlock))
\* for secondsPerBlock = (currentTimestamp - referenceTimestamp) /
\* (currentBlock - referenceBlock), reference block max(1, currentBlock - 43200),
\* and secondsPerBlock = 2 when that denominator is not positive; at 2 seconds
\* per block, currentBlock 1000 and a target 100 seconds back it is 950; it is
\* never below 1.
C15_EstimateFormula ==
    (es_pc = "out" /\ es_in.sample_ok) =>
        LET referenceBlock == Max(1, es_in.current_block - 43200)
            num == EST_NOW - es_in.sample_timestamp
            den == es_in.current_block - referenceBlock
            time_diff == EST_NOW - es_in.target_timestamp
            g == GCD(num, den)
            quotient == IF den > 0
                        THEN ExactQuotient(time_diff, num \div g, den \div g)
                        ELSE time_diff \div 2
        IN  /\ es_out = Max(1, es_in.current_block - quotient)
            /\ es_out >= 1
            /\ (es_in.current_block = 1000 /\ time_diff = 100 /\ num = 2 * den)
                   => es_out = 950

-----------------------------------------------------------------------------
(* The persist operations: save_data, save_last_processed_block and         *)
(* save_mined_blocks_to_file all do  with open(path, 'w') as f:             *)
(* json.dump(data, f, indent=2).  open(path, 'w') truncates the file,       *)
(* json.dump writes the text piece by piece into f's buffer, which reaches  *)
(* the file whenever it fills and when f is closed.  A reader (the web      *)
(* page, or the next load) opens the same path at any moment.               *)

\* buffers a persisted document may fill
MaxChunks == 2
ChunkValues == {1, 2}

PersistedFiles == {"price_data_bwork.json", "last_processed_block.json", "mined_blocks.json"}

\* the checkpoint document is a few bytes: it never fills a buffer
ChunksOf(file) == IF file = "last_processed_block.json" THEN 1 ELSE MaxChunks

Documents(file) == UNION {[1 .. n -> ChunkValues] : n \in 1 .. ChunksOf(file)}

PersistIdle ==
    /\ pw_file = "price_data_bwork.json"
    /\ pw_pc = "closed"
    /\ pw_disk = <<1>>
    /\ pw_old = <<1>>
    /\ pw_new = <<1>>
    /\ pw_seen = <<1>>

PersistInit ==
    /\ pw_file \in PersistedFiles
    /\ pw_pc = "closed"
    /\ pw_old \in Documents(pw_file)
    /\ pw_disk = pw_old
    /\ pw_new = pw_old
    /\ pw_seen = pw_old

\* open(path, 'w'): the file is truncated in place
PersistOpen ==
    /\ pw_pc = "closed"
    /\ \E doc \in Documents(pw_file) : pw_new' = doc
    /\ pw_old' = pw_disk
    /\ pw_disk' = <<>>
    /\ pw_pc' = "open"
    /\ UNCHANGED <<pw_file, pw_seen>>
    /\ UNCHANGED notPersistVars

\* json.dump: the buffer filled and was written to the file
PersistFlush ==
    /\ pw_pc = "open"
    /\ Len(pw_disk) + 1 < Len(pw_new)
    /\ pw_disk' = SubSeq(pw_new, 1, Len(pw_disk) + 1)
    /\ UNCHANGED <<pw_file, pw_pc, pw_old, pw_new, pw_seen>>
    /\ UNCHANGED notPersistVars

\* leaving the with block: the rest of the buffer is written, the file closed
PersistClose ==
    /\ pw_pc = "open"
    /\ pw_disk' = pw_new
    /\ pw_pc' = "closed"
    /\ UNCHANGED <<pw_file, pw_old, pw_new, pw_seen>>
    /\ UNCHANGED notPersistVars

\* a reader opens the path and reads all of it
ReaderRead ==
    /\ pw_seen' = pw_disk
    /\ UNCHANGED <<pw_file, pw_pc, pw_disk, pw_old, pw_new>>
    /\ UNCHANGED notPersistVars

PersistNext == PersistOpen \/ PersistFlush \/ PersistClose \/ ReaderRead

\* C11: a reader that opens a persisted file at any moment gets the complete
\* previous content or the complete new content, never an empty or partly
\* written file.
C11_ReaderSeesWholeFile == pw_seen = pw_old \/ pw_seen = pw_new

-----------------------------------------------------------------------------
(* unpack_slot0 and sqrtPriceX96_to_price.  A storage word has 256 bits and *)
(* sqrtPriceX96 has 160: such numbers are kept as the set of the positions  *)
(* of their 1 bits, and &, >> and the masks act on these sets.  Fields of   *)
(* 24 bits are integers.                                                    *)

WORD_BITS == 256
SQRT_PRICE_BITS == 160
FIELD_BITS == 24
TICK_SHIFT == 160
PROTOCOL_FEE_SHIFT == 184
LP_FEE_SHIFT == 208
\* Q192 = 2 ** 192
Q192_BITS == 192

RECURSIVE Pow2(_)
Pow2(n) == IF n = 0 THEN 1 ELSE 2 * Pow2(n - 1)

\* (1 << n) - 1
Mask(n) == 0 .. (n - 1)
\* a & b
And(a, b) == a \cap b
\* a >> n
Shr(a, n) == {i - n : i \in {j \in a : j >= n}}
\* a << n, within the word
Shl(a, n) == {i + n : i \in {j \in a : j + n < WORD_BITS}}

RECURSIVE BitsToInt(_)
\* the integer a bit set of at most FIELD_BITS bits stands for
BitsToInt(a) ==
    IF a = {} THEN 0
    ELSE LET i == CHOOSE j \in a : TRUE IN Pow2(i) + BitsToInt(a \ {i})

IntToBits(n, width) == {i \in 0 .. (width - 1) : (n \div Pow2(i)) % 2 = 1}

SignExtend24_mut(tick) == tick

\* if tick & (1 << 23): tick -= (1 << 24)
SignExtend24(tick) ==
    IF (tick \div Pow2(FIELD_BITS - 1)) % 2 = 1 THEN tick - Pow2(FIELD_BITS) ELSE tick

lpFee_of_mut(packed) == BitsToInt(And(Shr(packed, PROTOCOL_FEE_SHIFT), Mask(FIELD_BITS)))

\* lpFee = (packed >> 208) & ((1 << 24) - 1)
lpFee_of(packed) == BitsToInt(And(Shr(packed, LP_FEE_SHIFT), Mask(FIELD_BITS)))

unpack_slot0(packed) ==
    [sqrtPriceX96 |-> And(packed, Mask(SQRT_PRICE_BITS)),
     tick |-> SignExtend24(BitsToInt(And(Shr(packed, TICK_SHIFT), Mask(FIELD_BITS)))),
     protocolFee |-> BitsToInt(And(Shr(packed, PROTOCOL_FEE_SHIFT), Mask(FIELD_BITS))),
     lpFee |-> lpFee_of(packed)]

\* (sq ** 2) / Q192 is a float: 0.0 for sq = 0, the exact power of two
\* 2 ** (2k - 192) for sq = 2 ** k, and otherwise a rounded positive value
\* that is kept as the sq it was computed from
sqrtPriceX96_to_price(sq) ==
    IF sq = {} THEN [kind |-> "zero", exp |-> 0, of |-> {}]
    ELSE IF Cardinality(sq) = 1
    THEN [kind |-> "pow2", exp |-> 2 * (CHOOSE k \in sq : TRUE) - Q192_BITS, of |-> {}]
    ELSE [kind |-> "rounded", exp |-> 0, of |-> sq]

\* the float 1.0
PriceOne == [kind |-> "pow2", exp |-> 0, of |-> {}]

\* the fields words are packed from: 0, 1, 2^96, 2^159 + 1, 2^160 - 1
SqrtPrices == {{}, {0}, {96}, {0, 159}, Mask(SQRT_PRICE_BITS)}
Ticks == {0 - Pow2(FIELD_BITS - 1), 0 - 2, 0 - 1, 0, 1, Pow2(FIELD_BITS - 1) - 1}
Fees == {0, 1, Pow2(FIELD_BITS) - 1}
\* bits 232 .. 255 are not part of any field
TopBits == {{}, {232}, 232 .. 255}

SlotFields == [sqrtPriceX96 : SqrtPrices, tick : Ticks, protocolFee : Fees, lpFee : Fees]

\* the word holding the four fields at bit offsets 0, 160, 184 and 208, the
\* tick in 24-bit two's complement
Pack(f, top) ==
    f.sqrtPriceX96
      \cup Shl(IntToBits(f.tick % Pow2(FIELD_BITS), FIELD_BITS), TICK_SHIFT)
      \cup Shl(IntToBits(f.protocolFee, FIELD_BITS), PROTOCOL_FEE_SHIFT)
      \cup Shl(IntToBits(f.lpFee, FIELD_BITS), LP_FEE_SHIFT)
      \cup top

NoFields == [sqrtPriceX96 |-> {}, tick |-> 0, protocolFee |-> 0, lpFee |-> 0]
NoOut == [fields |-> NoFields, price |-> sqrtPriceX96_to_price({})]

SlotIdle ==
    /\ sl_pc = "in"
    /\ sl_fields = NoFields
    /\ sl_word = {}
    /\ sl_out = NoOut

SlotInit ==
    /\ sl_pc = "in"
    /\ sl_fields \in SlotFields
    /\ \E top \in TopBits : sl_word = Pack(sl_fields, top)
    /\ sl_out = NoOut

\* getSlot0: unpack_slot0(packed), then sqrtPriceX96_to_price(sqrtPriceX96)
Unpack ==
    /\ sl_pc = "in"
    /\ sl_out' = [fields |-> unpack_slot0(sl_word),
                  price |-> sqrtPriceX96_to_price(unpack_slot0(sl_word).sqrtPriceX96)]
    /\ sl_pc' = "out"
    /\ UNCHANGED <<sl_fields, sl_word>>
    /\ UNCHANGED notSlotVars

SlotNext == Unpack

\* C12: unpack_slot0 of the word packed from (sqrtPriceX96, tick, protocolFee,
\* lpFee) returns exactly that tuple, whatever bits 232 .. 255 of the word are.
C12_UnpackRoundTrip == sl_pc = "out" => sl_out.fields = sl_fields

\* a word with all of bits 232 .. 255 set, a negative tick and a full lpFee
C12_Witness ==
    /\ sl_pc = "out"
    /\ (232 .. 255) \subseteq sl_word
    /\ sl_fields.tick < 0
    /\ sl_fields.lpFee = Pow2(FIELD_BITS) - 1
    /\ sl_fields.protocolFee = 1
    /\ sl_fields.sqrtPriceX96 = Mask(SQRT_PRICE_BITS)

\* C13: the tick returned is in [-2^23, -1] when bit 183 of the word is set
\* and in [0, 2^23 - 1] otherwise; tick bits 0xFFFFFE with sqrtPriceX96 = 2^96
\* and zero fees decode to tick -2, fees 0 and price 1.
C13_TickSign ==
    sl_pc = "out" =>
        /\ (183 \in sl_word) =>
               sl_out.fields.tick \in (0 - Pow2(FIELD_BITS - 1)) .. (0 - 1)
        /\ (183 \notin sl_word) =>
               sl_out.fields.tick \in 0 .. (Pow2(FIELD_BITS - 1) - 1)
        /\ (And(sl_word, Mask(232)) = {96} \cup (161 .. 183)) =>
               /\ sl_out.fields.tick = 0 - 2
               /\ sl_out.fields.protocolFee = 0
               /\ sl_out.fields.lpFee = 0
               /\ sl_out.price = PriceOne

\* the word of the example, decoded
C13_Witness ==
    /\ sl_pc = "out"
    /\ sl_word = {96} \cup (161 .. 183)
    /\ sl_out.fields.tick = 0 - 2

-----------------------------------------------------------------------------
(* getSlot0 on any pair of storage words: the word of the BWORK/WETH pool   *)
(* and the word of the WETH/USD pool.  A float result is kept as the        *)
(* operands it was computed from.                                           *)

\* 10**12
USD_SCALE_DIGITS == 12

\* the words get_storage_with_retry returns for the two pools
PairWords ==
    {Pack(f, top) : f \in [sqrtPriceX96 : SqrtPrices, tick : {0 - 1, 0},
                           protocolFee : {0}, lpFee : {Pow2(FIELD_BITS) - 1}],
                    top \in {{}, 232 .. 255}}

\* getSlot0 after the two reads: price = sqrtPriceX96_to_price(..),
\* price2 = sqrtPriceX96_to_price(..) * 10**12, actual_price = price2 * (1/price).
\* 1/price raises ZeroDivisionError when price is 0.0.
compose(packed, packed2) ==
    LET price == sqrtPriceX96_to_price(unpack_slot0(packed).sqrtPriceX96)
        price2 == sqrtPriceX96_to_price(unpack_slot0(packed2).sqrtPriceX96)
    IN  IF price.kind = "zero"
        THEN [kind |-> "ZeroDivisionError", price2 |-> price2, digits |-> USD_SCALE_DIGITS,
              price |-> price]
        ELSE [kind |-> "value", price2 |-> price2, digits |-> USD_SCALE_DIGITS,
              price |-> price]

NoPrice == [kind |-> "none", price2 |-> sqrtPriceX96_to_price({}), digits |-> 0, price |-> sqrtPriceX96_to_price({})]

ComposeIdle ==
    /\ gs_pc = "in"
    /\ gs_words = <<{}, {}>>
    /\ gs_out = NoPrice

ComposeInit ==
    /\ gs_pc = "in"
    /\ gs_words \in PairWords \X PairWords
    /\ gs_out = NoPrice

\* getSlot0, both storage reads having returned a word
GetSlot0 ==
    /\ gs_pc = "in"
    /\ gs_out' = compose(gs_words[1], gs_words[2])
    /\ gs_pc' = "out"
    /\ UNCHANGED gs_words
    /\ UNCHANGED notComposeVars

ComposeNext == GetSlot0

\* C22: getSlot0 derives a price from every pair of 256-bit words, also when a
\* sqrtPriceX96 field is 0: it never raises.
C22_ComposeTotal == gs_pc = "out" => gs_out.kind = "value"

-----------------------------------------------------------------------------
(* The scheduler of EthereumBlockFetcher: a caller that calls               *)
(* start_scheduler and stop_scheduler in any order, and the threads          *)
(* start_scheduler makes, each running scheduler_loop.                       *)

\* threads a caller makes at most
MaxThreads == 3
Threads == 1 .. MaxThreads

\* a thread not made yet
NoThread == "none"

SchedIdle ==
    /\ running = FALSE
    /\ scheduler_thread = 0
    /\ thread_pc = [t \in Threads |-> NoThread]
    /\ caller_pc = "idle"

\* start_scheduler: if self.running: return; else running = True and a new
\* thread starts scheduler_loop
start_scheduler ==
    /\ caller_pc = "idle"
    /\ IF running
       THEN UNCHANGED <<running, scheduler_thread, thread_pc>>
       ELSE \E t \in Threads :
               /\ thread_pc[t] = NoThread
               /\ \A u \in Threads : u < t => thread_pc[u] # NoThread
               /\ running' = TRUE
               /\ scheduler_thread' = t
               /\ thread_pc' = [thread_pc EXCEPT ![t] = "while"]
    /\ UNCHANGED caller_pc
    /\ UNCHANGED notSchedVars

\* stop_scheduler up to the join: self.running = False
StopBegin ==
    /\ caller_pc = "idle"
    /\ running' = FALSE
    /\ caller_pc' = "joining"
    /\ UNCHANGED <<scheduler_thread, thread_pc>>
    /\ UNCHANGED notSchedVars

\* stop_scheduler returns: there is no thread, or join(timeout=5) returns
\* because the thread ended, or because 5 seconds passed with the thread
\* still inside run_once
StopEnd ==
    /\ caller_pc = "joining"
    /\ IF scheduler_thread = 0 THEN TRUE
       ELSE thread_pc[scheduler_thread] \in {"dead", "run_once"}
    /\ caller_pc' = "idle"
    /\ UNCHANGED <<running, scheduler_thread, thread_pc>>
    /\ UNCHANGED notSchedVars

\* scheduler_loop: while self.running
LoopTest(t) ==
    /\ thread_pc[t] = "while"
    /\ thread_pc' = [thread_pc EXCEPT ![t] = IF running THEN "run_once" ELSE "dead"]
    /\ UNCHANGED <<running, scheduler_thread, caller_pc>>
    /\ UNCHANGED notSchedVars

\* scheduler_loop: self.run_once(batch_size) returns
LoopRunOnce(t) ==
    /\ thread_pc[t] = "run_once"
    /\ thread_pc' = [thread_pc EXCEPT ![t] = "wait"]
    /\ UNCHANGED <<running, scheduler_thread, caller_pc>>
    /\ UNCHANGED notSchedVars

\* scheduler_loop: the wait ends, after interval_seconds or at the first
\* second at which self.running is False
LoopWait(t) ==
    /\ thread_pc[t] = "wait"
    /\ thread_pc' = [thread_pc EXCEPT ![t] = "while"]
    /\ UNCHANGED <<running, scheduler_thread, caller_pc>>
    /\ UNCHANGED notSchedVars

scheduler_loop == \E t \in Threads : LoopTest(t) \/ LoopRunOnce(t) \/ LoopWait(t)

SchedNext == start_scheduler \/ StopBegin \/ StopEnd \/ scheduler_loop

\* C26: whatever the order of the start_scheduler and stop_scheduler calls,
\* at most one thread is inside scheduler_loop's run_once at a time.
C26_OneLoopRuns == Cardinality({t \in Threads : thread_pc[t] = "run_once"}) <= 1

-----------------------------------------------------------------------------
(* One pass of collect_historical_data whose refinement ended at a given    *)
(* timestamp, followed by get_missing_timestamps on the store it leaves, as *)
(* the next start of main computes it.                                      *)

\* the moment of the later get_missing_timestamps: 23:00 on day 1
MISS_NOW == 2 * DAY_SECONDS - 3600

\* the anchors of day 1
MissAnchors == get_target_timestamps_for_day(MISS_NOW)

\* actual_timestamp - target_timestamp at the end of the refinement: on the
\* anchor, one second inside the tolerance, on its edge, one second outside
MissOffsets == {0 - TOLERANCE_SECONDS - 1, 0 - TOLERANCE_SECONDS, 1 - TOLERANCE_SECONDS, 0,
                TOLERANCE_SECONDS - 1, TOLERANCE_SECONDS, TOLERANCE_SECONDS + 1}

\* the while condition of the fine-tuning loop is false
WithinTolerance(actual_timestamp, target_timestamp) ==
    ~(Abs(actual_timestamp - target_timestamp) > TOLERANCE_SECONDS)

\* stores of samples taken exactly at other anchors
MissStores(target) ==
    {[timestamps |-> SortedSeq(S),
      blocks |-> [i \in 1 .. Cardinality(S) |-> 3],
      prices |-> [i \in 1 .. Cardinality(S) |-> 1]] : S \in SUBSET (MissAnchors \ {target})}

NoMissIn == [store |-> EmptyStore, target |-> 0, actual |-> 0]
NoMissOut == [store |-> EmptyStore, missing |-> <<>>]

MissIdle ==
    /\ ms_pc = "in"
    /\ ms_in = NoMissIn
    /\ ms_out = NoMissOut

MissInit ==
    /\ ms_pc = "in"
    /\ \E target \in MissAnchors, d \in MissOffsets :
        \E st \in MissStores(target) :
            ms_in = [store |-> st, target |-> target, actual |-> target + d]
    /\ ms_out = NoMissOut

\* the three inserts of the pass (lines 349-359), then get_missing_timestamps
\* on the timestamps of the store
InsertThenMissing ==
    /\ ms_pc = "in"
    /\ LET st == StoreInsert(ms_in.store,
                             backfill_insert_pos(ms_in.store.timestamps, ms_in.actual),
                             ms_in.actual, 3, 1)
       IN  ms_out' = [store |-> st,
                      missing |-> get_missing_timestamps(st.timestamps, MISS_NOW, TargetDays)]
    /\ ms_pc' = "out"
    /\ UNCHANGED ms_in
    /\ UNCHANGED notMissVars

MissNext == InsertThenMissing

\* C28: after backfill inserted a sample whose refinement ended within the
\* tolerance of its anchor, get_missing_timestamps on the store does not
\* report that anchor.
C28_AnchorNotRecollected ==
    (ms_pc = "out" /\ WithinTolerance(ms_in.actual, ms_in.target)) =>
        \A i \in 1 .. Len(ms_out.missing) : ms_out.missing[i] # ms_in.target

-----------------------------------------------------------------------------
(* The estimate and the fine-tuning of one pass of collect_historical_data,  *)
(* on ledgers of any age: the head is an hour or two after block 0, shortly   *)
(* after the halt, or a day after block 0.                                    *)

\* the heads: 14:30 and 17:30 on day 0; 10, 30 and 70 minutes after the end
\* of the halt; 13:00 and 18:00 on day 1
RefineHeads == {3600, 9000, HALT_BLOCK + 300, HALT_BLOCK + 900, HALT_BLOCK + 2100,
                START_HEAD, START_HEAD + 9000}

NoRefineIn == [target |-> 0, sample_ok |-> TRUE]
NoRefineOut == [sample_block |-> 1, estimated_block |-> 1, last_block |-> 1, ok |-> FALSE]

RefineIdle ==
    /\ rf_pc = "in"
    /\ rf_in = NoRefineIn
    /\ rf_out = NoRefineOut

\* the ledger, and one of the targets get_missing_timestamps reports at its
\* head: they are in the past
RefineInit ==
    /\ profile \in Profiles
    /\ ledger_head \in RefineHeads
    /\ ticks = 0
    /\ main_pc = "start"
    /\ ArrayOfTimestamps = <<>>
    /\ ArrayOfBlocksSearched = <<>>
    /\ ArrayOfActualPrices = <<>>
    /\ price_file = EmptyStore
    /\ missing_timestamps = <<>>
    /\ item_index = 0
    /\ last_op = "none"
    /\ last_refine = NoRefine
    /\ last_saves = 0
    /\ rf_pc = "in"
    /\ \E sample_ok \in BOOLEAN :
        LET missing == get_missing_timestamps(<<>>, TsOf(ledger_head), TargetDays)
        IN  \E i \in 1 .. Len(missing) :
                rf_in = [target |-> missing[i], sample_ok |-> sample_ok]
    /\ rf_out = NoRefineOut

\* collect_historical_data, lines 320-337: estimate_block_from_timestamp,
\* getBlock(estimated_block), the fine-tuning loop
EstimateAndRefine ==
    /\ rf_pc = "in"
    /\ LET estimated_block ==
               estimate_block_from_timestamp(rf_in.target, ledger_head,
                                             TsOf(ledger_head), rf_in.sample_ok)
           found == refinement(rf_in.target, estimated_block)
       IN  rf_out' = [sample_block |-> Max(1, ledger_head - DAY_SECONDS \div 2),
                      estimated_block |-> estimated_block,
                      last_block |-> found.block,
                      ok |-> found.ok]
    /\ rf_pc' = "out"
    /\ UNCHANGED rf_in
    /\ UNCHANGED notRefineVars

RefineNext == EstimateAndRefine

\* C29: for a target in the past, the blocks asked from the ledger by the
\* estimator and by the fine-tuning loop are all in 1 .. current_block.
C29_BlocksInRange ==
    rf_pc = "out" =>
        /\ rf_out.sample_block \in 1 .. ledger_head
        /\ rf_out.estimated_block \in 1 .. ledger_head
        /\ rf_out.last_block \in 1 .. ledger_head

-----------------------------------------------------------------------------
(* Specifications: one per subsystem *)

InitScan == ScanInit /\ RetryIdle /\ CleanIdle /\ StoreIdle /\ PersistIdle /\ SlotIdle /\ OpIdle /\ EstIdle /\ CrashIdle /\ ComposeIdle /\ SchedIdle /\ MissIdle /\ RefineIdle
SpecScan == InitScan /\ [][ScanNext]_vars

InitRetry == RetryIdle /\ ScanIdle /\ CleanIdle /\ StoreIdle /\ PersistIdle /\ SlotIdle /\ OpIdle /\ EstIdle /\ CrashIdle /\ ComposeIdle /\ SchedIdle /\ MissIdle /\ RefineIdle
SpecRetry == InitRetry /\ [][RetryNext]_vars

InitClean == CleanInit /\ ScanIdle /\ RetryIdle /\ StoreIdle /\ PersistIdle /\ SlotIdle /\ OpIdle /\ EstIdle /\ CrashIdle /\ ComposeIdle /\ SchedIdle /\ MissIdle /\ RefineIdle
SpecClean == InitClean /\ [][CleanNext]_vars

InitStore == StoreInit /\ ScanIdle /\ RetryIdle /\ CleanIdle /\ PersistIdle /\ SlotIdle /\ OpIdle /\ EstIdle /\ CrashIdle /\ ComposeIdle /\ SchedIdle /\ MissIdle /\ RefineIdle
SpecStore == InitStore /\ [][StoreNext]_vars

InitPersist == PersistInit /\ ScanIdle /\ RetryIdle /\ CleanIdle /\ StoreIdle /\ SlotIdle /\ OpIdle /\ EstIdle /\ CrashIdle /\ ComposeIdle /\ SchedIdle /\ MissIdle /\ RefineIdle
SpecPersist == InitPersist /\ [][PersistNext]_vars

InitSlot == SlotInit /\ ScanIdle /\ RetryIdle /\ CleanIdle /\ StoreIdle /\ PersistIdle /\ OpIdle /\ EstIdle /\ CrashIdle /\ ComposeIdle /\ SchedIdle /\ MissIdle /\ RefineIdle
SpecSlot == InitSlot /\ [][SlotNext]_vars

InitOp == OpInit /\ ScanIdle /\ RetryIdle /\ CleanIdle /\ StoreIdle /\ PersistIdle /\ SlotIdle /\ EstIdle /\ CrashIdle /\ ComposeIdle /\ SchedIdle /\ MissIdle /\ RefineIdle
SpecOp == InitOp /\ [][OpNext]_vars

InitEst == EstInit /\ ScanIdle /\ RetryIdle /\ CleanIdle /\ StoreIdle /\ PersistIdle /\ SlotIdle /\ OpIdle /\ CrashIdle /\ ComposeIdle /\ SchedIdle /\ MissIdle /\ RefineIdle
SpecEst == InitEst /\ [][EstNext]_vars

InitCrash == CrashInit /\ RetryIdle /\ CleanIdle /\ StoreIdle /\ PersistIdle /\ SlotIdle /\ OpIdle /\ EstIdle /\ ComposeIdle /\ SchedIdle /\ MissIdle /\ RefineIdle
SpecCrash == InitCrash /\ [][CrashNext]_vars

InitCompose == ComposeInit /\ ScanIdle /\ RetryIdle /\ CleanIdle /\ StoreIdle /\ PersistIdle /\ SlotIdle /\ OpIdle /\ EstIdle /\ CrashIdle /\ SchedIdle /\ MissIdle /\ RefineIdle
SpecCompose == InitCompose /\ [][ComposeNext]_vars

InitSched == SchedIdle /\ ScanIdle /\ RetryIdle /\ CleanIdle /\ StoreIdle /\ PersistIdle /\ SlotIdle /\ OpIdle /\ EstIdle /\ CrashIdle /\ ComposeIdle /\ MissIdle /\ RefineIdle
SpecSched == InitSched /\ [][SchedNext]_vars

InitWindows == WindowsInit /\ RetryIdle /\ CleanIdle /\ StoreIdle /\ PersistIdle /\ SlotIdle /\ OpIdle /\ EstIdle /\ CrashIdle /\ ComposeIdle /\ SchedIdle /\ MissIdle /\ RefineIdle
SpecWindows == InitWindows /\ [][WindowsNext]_vars /\ WF_vars(RunOnceBatch) /\ WF_vars(RunOnceFinish)

InitMiss == MissInit /\ ScanIdle /\ RetryIdle /\ CleanIdle /\ StoreIdle /\ PersistIdle /\ SlotIdle /\ OpIdle /\ EstIdle /\ CrashIdle /\ ComposeIdle /\ SchedIdle /\ RefineIdle
SpecMiss == InitMiss /\ [][MissNext]_vars

InitRefine == RefineInit /\ ScanIdle /\ RetryIdle /\ CleanIdle /\ PersistIdle /\ SlotIdle /\ OpIdle /\ EstIdle /\ CrashIdle /\ ComposeIdle /\ SchedIdle /\ MissIdle
SpecRefine == InitRefine /\ [][RefineNext]_vars

InitLive == LiveInit /\ ScanIdle /\ RetryIdle /\ CleanIdle /\ PersistIdle /\ SlotIdle /\ OpIdle /\ EstIdle /\ CrashIdle /\ ComposeIdle /\ SchedIdle /\ MissIdle /\ RefineIdle
SpecLive == InitLive /\ [][LiveNext]_vars

====
